---- MODULE Spec2Model ----
(***************************************************************************)
(* A model of the replay journal of RC_Mod_ReplayMaker:                    *)
(*   src/HistoryManager.mjs   HistoryManager, History                      *)
(*   src/unnamed/part_002     the shipped historymanager.js, whose         *)
(*                            applySectorsUpdate the mod still calls       *)
(*   src/replaymaker_mod.js   the caller                                   *)
(*                                                                         *)
(* JavaScript objects are functions from property names to values: a       *)
(* property that is not set is not in the DOMAIN, `delete` shrinks the     *)
(* DOMAIN, and a property that is set to undefined is in the DOMAIN with   *)
(* the value Undefined.  JSON.stringify drops the latter, so an object in  *)
(* memory and its persisted form can differ.                               *)
(***************************************************************************)
EXTENDS Integers, Sequences, FiniteSets, TLC

VARIABLES
    loadedGalaxies,  \* HistoryManager.#loadedGalaxies: instance -> History
    fatal,           \* HistoryManager.#fatal
    rootExists,      \* the root directory exists on disk
    dirs,            \* the instances whose directory exists on disk
    files,           \* instance -> the parsed content of <root>/<instance>/history.json
    pending,         \* asynchronous fs operations not yet completed
    clock,           \* the wall clock, as last read
    nCreated,        \* number of processNewInstance calls that built a History
    lastCall,        \* the last step: its arguments, how it ended, and the History
                     \* it found (history variable, not program state)
    created          \* instance -> the galaxy its cached History was created
                     \* from (history variable, not program state)

vars == <<loadedGalaxies, fatal, rootExists, dirs, files, pending, clock, nCreated,
          lastCall, created>>

-----------------------------------------------------------------------------
(* Bounds of the model *)

MaxClock == 1     \* the clock stops advancing here
MaxRecords == 1   \* no call may leave a journal longer than this
MaxCreated == 1   \* processNewInstance builds at most this many Histories

-----------------------------------------------------------------------------
(* Program constants *)

LATEST_HISTORY_VESRION == 1
DUMMY_ALPHA_VERSION == -2
DUMMY_BETA_VERSION == -1

-----------------------------------------------------------------------------
(* JavaScript values *)

Null == "null"
Undefined == "undefined"

\* The properties whose values are strings (or null / undefined) in this model.
StringProps == {"name", "owner", "status", "faction", "position", "score",
                "receivedAt", "time", "type", "adjacent", "centroid", "points",
                "start", "currentTimestamp", "currentTime", "gameType"}

\* o.k: reading a property that is not set yields undefined.
Get(o, k) == IF k \in DOMAIN o THEN o[k] ELSE Undefined

\* o.k = v
Put(o, k, v) == [x \in DOMAIN o \cup {k} |-> IF x = k THEN v ELSE o[x]]

\* delete o.k
Delete(o, k) == [x \in DOMAIN o \ {k} |-> o[x]]

\* Object.assign(target, source)
ObjectAssign(target, source) ==
    [x \in DOMAIN target \cup DOMAIN source |->
        IF x \in DOMAIN source THEN source[x] ELSE target[x]]

\* DateTime.now().toISO() at clock value n
ISO(n) == "T" \o ToString(n)

\* The values DateTime.now() can take on the next read: time does not go back.
Now == {t \in {clock, clock + 1} : t <= MaxClock}

-----------------------------------------------------------------------------
(* JSON.parse(JSON.stringify(x)): a property whose value is undefined is dropped *)

JsonObject(o) ==
    [x \in {k \in DOMAIN o : k \notin StringProps \/ o[k] # Undefined} |-> o[x]]

JsonList(list) == [n \in 1..Len(list) |-> JsonObject(list[n])]

JsonGalaxy(g) == [x \in DOMAIN g |-> JsonList(g[x])]

\* A journal entry is a bundle {system, sector} (HistoryManager.mjs) or a flat
\* update object (applySectorsUpdate of the shipped historymanager.js).
JsonEntry(e) ==
    IF "system" \in DOMAIN e
    THEN [system |-> JsonObject(e.system), sector |-> JsonObject(e.sector)]
    ELSE JsonObject(e)

JsonEntries(list) == [n \in 1..Len(list) |-> JsonEntry(list[n])]

JsonHistory(h) ==
    LET top == JsonObject(h)
    IN  [x \in DOMAIN top |->
            CASE x \in {"base", "current"} -> JsonGalaxy(top[x])
              [] x \in {"snapshots", "undo"} -> JsonEntries(top[x])
              [] OTHER -> top[x]]

-----------------------------------------------------------------------------
(* The data the model runs on *)

Instances == {10, 20}

DivNull == <<[faction |-> Null, points |-> 1]>>
DivArk == <<[faction |-> "ark", points |-> 1]>>

\* The fixtures of the tests: one system in one sector.
SIMPLE_SECTOR == [id |-> 0, name |-> "simple sector", owner |-> Null, division |-> DivNull]
SIMPLE_SYSTEM == [id |-> 1, name |-> "system name", owner |-> Null, sector_id |-> 0,
                  status |-> "uninhabited"]

\* Entities as the game dumps them, transient fields included.
LIVE_SYSTEM_1 == [id |-> 1, name |-> "system name", owner |-> Null, sector_id |-> 0,
                  status |-> "uninhabited", faction |-> Null, position |-> "pos",
                  score |-> "score", receivedAt |-> "rcv"]
LIVE_SYSTEM_2 == [id |-> 2, name |-> "other system", owner |-> Null, sector_id |-> 0,
                  status |-> "uninhabited"]
LIVE_SECTOR_0 == [id |-> 0, name |-> "simple sector", owner |-> Null, division |-> DivNull,
                  adjacent |-> "adj", centroid |-> "cen", points |-> "pts"]

EmptyGalaxy == [stellar_systems |-> <<>>, sectors |-> <<>>]
SimpleGalaxy == [stellar_systems |-> <<SIMPLE_SYSTEM>>, sectors |-> <<SIMPLE_SECTOR>>]
LiveGalaxy == [stellar_systems |-> <<LIVE_SYSTEM_1, LIVE_SYSTEM_2>>,
               sectors |-> <<LIVE_SECTOR_0>>]

\* The galaxy dumps processNewInstance is called with.
Galaxies == {LiveGalaxy}

\* The instance of the game the mod is loaded into; the other instance is
\* known from an earlier session only.
NewInstances == {20}

\* A system update as the game sends it: bare (as in the tests) or with the
\* faction and the transient fields.
BareCandidate(id, sector_id, owner, status) ==
    [id |-> id, name |-> "system name", owner |-> owner, sector_id |-> sector_id,
     status |-> status]

FullCandidate(id, sector_id, owner, status) ==
    [id |-> id, name |-> "new name", owner |-> owner, sector_id |-> sector_id,
     status |-> status, faction |-> IF owner = Null THEN Null ELSE "ark",
     position |-> "pos2", score |-> "score2", receivedAt |-> "rcv2"]

Candidates ==
    { BareCandidate(1, 0, "Granite", "uninhabited"), \* a new owner
      FullCandidate(1, 0, "Granite", "inhabited"),   \* owner, status and faction
      BareCandidate(2, 1, "Granite", "uninhabited") }\* unknown system or sector

\* What window.gamestate.game.galaxy.sectors[sector_id] can hold.
LiveSectors ==
    { [owner |-> "ark", division |-> DivArk, centroid |-> "cen"] }

-----------------------------------------------------------------------------
(* class History *)

\* The field initialisers and the constructor called without a galaxy.
EmptyHistory ==
    [VERSION |-> LATEST_HISTORY_VESRION, start |-> "", base |-> <<>>, current |-> <<>>,
     snapshots |-> <<>>, undo |-> <<>>, instance |-> -1, currentTimestamp |-> Null,
     gameType |-> "slow"]

\* A faulty variant of the constructor: this.instance is left at its default.
NewHistoryWithoutInstance(instance, galaxy, t1, t2) ==
    [VERSION |-> LATEST_HISTORY_VESRION, start |-> ISO(t1), base |-> galaxy,
     current |-> galaxy, snapshots |-> <<>>, undo |-> <<>>, instance |-> -1,
     currentTimestamp |-> ISO(t2), gameType |-> "slow"]

\* new History(instance, galaxy) with the two clock reads t1 <= t2; clone(galaxy)
\* is a deep copy, so base and current are the galaxy's value.
NewHistory(instance, galaxy, t1, t2) ==
    [VERSION |-> LATEST_HISTORY_VESRION, start |-> ISO(t1), base |-> galaxy,
     current |-> galaxy, snapshots |-> <<>>, undo |-> <<>>, instance |-> instance,
     currentTimestamp |-> ISO(t2), gameType |-> "slow"]

-----------------------------------------------------------------------------
(* HistoryManager: lookups *)

\* #getById(list, id): the last element with that id, 0 standing for null.
getById(list, id) ==
    LET hits == {n \in 1..Len(list) : list[n].id = id}
    IN  IF hits = {} THEN 0 ELSE CHOOSE n \in hits : \A m \in hits : m <= n

\* A faulty variant of hasHistory: the file system is not consulted.
hasHistoryCachedOnly(instance) == instance \in DOMAIN loadedGalaxies

\* hasHistory(instance)
hasHistory(instance) == instance \in DOMAIN loadedGalaxies \/ instance \in DOMAIN files

\* getHistory(instance) succeeds
canLoad(instance) == hasHistory(instance)

\* A faulty variant of getHistory: the document is read on every call.
cacheAlwaysReloaded(instance) ==
    [i \in DOMAIN loadedGalaxies \cup {instance} |->
        IF i = instance /\ instance \in DOMAIN files
        THEN ObjectAssign(EmptyHistory, files[instance])
        ELSE loadedGalaxies[i]]

\* The cache after getHistory(instance) has succeeded.
cacheAfterLoad(instance) ==
    IF instance \in DOMAIN loadedGalaxies
    THEN loadedGalaxies
    ELSE [i \in DOMAIN loadedGalaxies \cup {instance} |->
            IF i = instance THEN ObjectAssign(EmptyHistory, files[instance])
            ELSE loadedGalaxies[i]]

\* No History: what lastCall.before holds when the call had none to work on.
NoHistory == [none |-> TRUE]

cachedOrNone(instance) ==
    IF instance \in DOMAIN loadedGalaxies THEN loadedGalaxies[instance] ELSE NoHistory

\* The History getHistory(instance) yields, if it yields one.
historyOrNone(instance) ==
    IF canLoad(instance) THEN cacheAfterLoad(instance)[instance] ELSE NoHistory

-----------------------------------------------------------------------------
(* The state after `new HistoryManager(rootDir)` *)

\* A document the program wrote for a fresh History of that galaxy.
FreshDocument(instance, galaxy) == JsonHistory(NewHistory(instance, galaxy, 0, 0))

\* The replay directory is missing (its creation is then under way), or it
\* holds the documents of earlier sessions.
Init ==
    /\ loadedGalaxies = <<>>
    /\ fatal = FALSE
    /\ clock = 0
    /\ nCreated = 0
    /\ lastCall = [op |-> "constructor"]
    /\ created = <<>>
    /\ \/ /\ rootExists = FALSE
          /\ dirs = {}
          /\ files = <<>>
          /\ pending = {[kind |-> "mkdirRoot"]}
       \/ /\ rootExists = TRUE
          /\ pending = {}
          /\ dirs = Instances
          /\ files = [i \in Instances |->
                        IF i = 10 THEN FreshDocument(i, EmptyGalaxy)
                        ELSE FreshDocument(i, SimpleGalaxy)]

-----------------------------------------------------------------------------
(* HistoryManager.constructor: the callback of fs.mkdir(rootDir) *)

\* A faulty variant of the callback: the flag follows the last result
\* (this.#fatal = !!err), so that a success clears it.
RootMkdirDoneResetting ==
    /\ [kind |-> "mkdirRoot"] \in pending
    /\ pending' = pending \ {[kind |-> "mkdirRoot"]}
    /\ \E err \in BOOLEAN :
          /\ rootExists' = ~err
          /\ fatal' = err
          /\ lastCall' = [op |-> "mkdirRootCallback", err |-> err]
    /\ UNCHANGED <<loadedGalaxies, dirs, files, clock, nCreated, created>>

RootMkdirDone ==
    /\ [kind |-> "mkdirRoot"] \in pending
    /\ pending' = pending \ {[kind |-> "mkdirRoot"]}
    /\ \E err \in BOOLEAN :
          /\ rootExists' = ~err
          /\ fatal' = (fatal \/ err)
          /\ lastCall' = [op |-> "mkdirRootCallback", err |-> err]
    /\ UNCHANGED <<loadedGalaxies, dirs, files, clock, nCreated, created>>

-----------------------------------------------------------------------------
(* HistoryManager.processNewInstance *)

\* A pending callback closes over the History object it was started for.  Once
\* the cache holds another object for the instance, the callback still has the
\* old one, which nothing changes any more.
Orphaned(op, instance) ==
    IF op.kind \in {"mkdir", "mkdirCallback"} /\ op.instance = instance
       /\ "history" \notin DOMAIN op /\ instance \in DOMAIN loadedGalaxies
    THEN [x \in DOMAIN op \cup {"history"} |->
            IF x = "history" THEN loadedGalaxies[instance] ELSE op[x]]
    ELSE op

\* The cache after line 87, given what the guard at line 76 found.
cacheAfterCreate(instance, history) ==
    [i \in DOMAIN loadedGalaxies \cup {instance} |->
        IF i = instance THEN history ELSE loadedGalaxies[i]]

processNewInstance(instance, galaxy) ==
    IF fatal
    THEN /\ lastCall' = [op |-> "processNewInstance", instance |-> instance,
                         galaxy |-> galaxy, outcome |-> "fatal",
                         existed |-> hasHistory(instance),
                         before |-> historyOrNone(instance)]
         /\ UNCHANGED <<loadedGalaxies, fatal, rootExists, dirs, files, pending, clock,
                        nCreated, created>>
    ELSE /\ nCreated < MaxCreated
         /\ \E t1 \in Now : \E t2 \in {t \in {t1, t1 + 1} : t <= MaxClock} :
               /\ loadedGalaxies' =
                     cacheAfterCreate(instance, NewHistory(instance, galaxy, t1, t2))
               /\ clock' = t2
         /\ pending' = {Orphaned(op, instance) : op \in pending}
                          \cup {[kind |-> "mkdir", instance |-> instance, seq |-> nCreated]}
         /\ nCreated' = nCreated + 1
         /\ created' = [i \in DOMAIN created \cup {instance} |->
                           IF i = instance THEN galaxy ELSE created[i]]
         /\ lastCall' = [op |-> "processNewInstance", instance |-> instance,
                         galaxy |-> galaxy, outcome |-> "return",
                         existed |-> hasHistory(instance),
                         before |-> historyOrNone(instance)]
         /\ UNCHANGED <<fatal, rootExists, dirs, files>>

\* The History a pending callback closes over.
ClosureHistory(op) ==
    IF "history" \in DOMAIN op THEN op.history ELSE loadedGalaxies[op.instance]

\* fs.mkdir(rootDir + instance) creates the directory.
MkdirDone(op) ==
    /\ op \in pending /\ op.kind = "mkdir"
    /\ rootExists /\ op.instance \notin dirs
    /\ dirs' = dirs \cup {op.instance}
    /\ pending' = (pending \ {op}) \cup {[op EXCEPT !.kind = "mkdirCallback"]}
    /\ lastCall' = [op |-> "mkdir", instance |-> op.instance]
    /\ UNCHANGED <<loadedGalaxies, fatal, rootExists, files, clock, nCreated, created>>

\* fs.mkdir fails (no root directory, or the directory is there already) and
\* its callback runs with err.
MkdirFailed(op) ==
    /\ op \in pending /\ op.kind = "mkdir"
    /\ ~rootExists \/ op.instance \in dirs
    /\ fatal' = TRUE
    /\ pending' = pending \ {op}
    /\ lastCall' = [op |-> "mkdirCallback", instance |-> op.instance, err |-> TRUE]
    /\ UNCHANGED <<loadedGalaxies, rootExists, dirs, files, clock, nCreated, created>>

\* The callback of a successful mkdir: JSON.stringify(history) now, and
\* fs.writeFile of that text.
MkdirCallback(op) ==
    /\ op \in pending /\ op.kind = "mkdirCallback"
    /\ pending' = (pending \ {op}) \cup
                     {[kind |-> "writeFile", instance |-> op.instance, seq |-> op.seq,
                       content |-> JsonHistory(ClosureHistory(op))]}
    /\ lastCall' = [op |-> "mkdirCallback", instance |-> op.instance, err |-> FALSE]
    /\ UNCHANGED <<loadedGalaxies, fatal, rootExists, dirs, files, clock, nCreated, created>>

\* fs.writeFile completes; its callback only logs.
WriteFileDone(op) ==
    /\ op \in pending /\ op.kind = "writeFile"
    /\ pending' = pending \ {op}
    /\ \E err \in BOOLEAN :
          /\ files' = IF err THEN files
                      ELSE [i \in DOMAIN files \cup {op.instance} |->
                               IF i = op.instance THEN op.content ELSE files[i]]
          /\ lastCall' = [op |-> "writeFileCallback", instance |-> op.instance,
                          err |-> err]
    /\ UNCHANGED <<loadedGalaxies, fatal, rootExists, dirs, clock, nCreated, created>>

-----------------------------------------------------------------------------
(* HistoryManager.applySystemUpdate *)

\* getSector found nothing: window.gamestate.game.galaxy.sectors[sector_id] is undefined.
NoSector == [undefined |-> TRUE]

IsUndefined(x) == "undefined" \in DOMAIN x

\* delete o.position; delete o.score; delete o.receivedAt (lines 136-138, 144-146)
stripSystem(o) == Delete(Delete(Delete(o, "position"), "score"), "receivedAt")

\* delete sec.adjacent; delete sec.centroid; delete sec.points (lines 156-158)
stripSector(o) == Delete(Delete(Delete(o, "adjacent"), "centroid"), "points")

\* A faulty variant of line 132: a new name counts as a change too.
systemChangedOrRenamed(storedSys, sys) ==
    \/ Get(storedSys, "owner") # Get(sys, "owner")
    \/ Get(storedSys, "status") # Get(sys, "status")
    \/ Get(storedSys, "name") # Get(sys, "name")

\* The condition of line 132.
systemChanged(storedSys, sys) ==
    \/ Get(storedSys, "owner") # Get(sys, "owner")
    \/ Get(storedSys, "status") # Get(sys, "status")

\* A faulty variant of lines 135-140: the status is missing in u.
undoSystemWithoutStatus(storedSys, history) ==
    Delete(Put(Put(stripSystem(storedSys), "time", Get(history, "currentTime")),
               "type", "system"), "status")

\* u of lines 135-140: the undo record's system.
undoSystem(storedSys, history) ==
    Put(Put(stripSystem(storedSys), "time", Get(history, "currentTime")), "type", "system")

\* sys after lines 120 and 143-146: the forward record's system.
forwardSystem(sys, t) ==
    stripSystem(Put(Put(sys, "type", "system"), "time", ISO(t)))

\* A faulty variant of lines 149-151: the status is not stored.
updatedSystemOwnerOnly(storedSys, sys) ==
    Put(Put(storedSys, "owner", Get(sys, "owner")), "faction", Get(sys, "faction"))

\* storedSys after lines 149-151.
updatedSystem(storedSys, sys) ==
    Put(Put(Put(storedSys, "owner", Get(sys, "owner")), "faction", Get(sys, "faction")),
        "status", Get(sys, "status"))

\* A faulty variant of lines 161-162: the division is not stored.
updatedSectorOwnerOnly(storedSec, curSector) ==
    Put(storedSec, "owner", Get(curSector, "owner"))

\* storedSec after lines 161-162.
updatedSector(storedSec, curSector) ==
    Put(Put(storedSec, "owner", Get(curSector, "owner")), "division", curSector.division)

\* A faulty variant: base and current share their systems (base not cloned),
\* so that a write to the stored system shows in base.
withSystemInBase(history, n, system) ==
    [history EXCEPT !.current.stellar_systems[n] = system,
                    !.base.stellar_systems[n] = system]

\* A faulty variant: every stored system is overwritten, not the one found.
withSystemEverywhere(history, n, system) ==
    [history EXCEPT !.current.stellar_systems =
                       [m \in 1..Len(@) |-> system]]

\* history with the element n of current.stellar_systems / current.sectors replaced.
withSystem(history, n, system) ==
    [history EXCEPT !.current.stellar_systems[n] = system]

withSector(history, n, sector) ==
    [history EXCEPT !.current.sectors[n] = sector]

\* Faulty variants of lines 177-178: the records go to the wrong logs; the
\* undo record is not pushed.
pushRecordsSwapped(history, record, undoR) ==
    [history EXCEPT !.undo = Append(@, record), !.snapshots = Append(@, undoR)]

pushSnapshotOnly(history, record, undoR) ==
    [history EXCEPT !.snapshots = Append(@, record)]

\* Lines 173-178: the two records are built and pushed.
pushRecords(history, record, undoR) ==
    [history EXCEPT !.undo = Append(@, undoR), !.snapshots = Append(@, record)]

\* What lines 125-130 throw: the message names an id and the instance.
NoError == [kind |-> "none"]

\* Faulty variants of lines 125-130: the sector is checked first; the sector
\* error names the system's id.
thrownErrorSectorFirst(si, ci, sys, instance) ==
    IF ci = 0
    THEN [kind |-> "UnknownSector", id |-> sys.sector_id, instance |-> instance]
    ELSE IF si = 0
    THEN [kind |-> "UnknownSystem", id |-> sys.id, instance |-> instance]
    ELSE NoError

thrownErrorNamingSystem(si, ci, sys, instance) ==
    IF si = 0
    THEN [kind |-> "UnknownSystem", id |-> sys.id, instance |-> instance]
    ELSE IF ci = 0
    THEN [kind |-> "UnknownSector", id |-> sys.id, instance |-> instance]
    ELSE NoError

thrownError(si, ci, sys, instance) ==
    IF si = 0
    THEN [kind |-> "UnknownSystem", id |-> sys.id, instance |-> instance]
    ELSE IF ci = 0
    THEN [kind |-> "UnknownSector", id |-> sys.sector_id, instance |-> instance]
    ELSE NoError

\* Lines 121-181 on a loaded History: the History as the call leaves it, how
\* the call ends before saving, and whether saveHistoryToDisk is reached.
applyToHistory(history, sys, instance, curSector, t) ==
    LET curState == history.current
        si == getById(curState.stellar_systems, sys.id)
        ci == getById(curState.sectors, sys.sector_id)
        error == thrownError(si, ci, sys, instance)
    IN  IF error # NoError
        THEN [history |-> history, outcome |-> error.kind, error |-> error,
              changed |-> FALSE, save |-> FALSE]
        ELSE
        LET storedSys == curState.stellar_systems[si]
            storedSec == curState.sectors[ci]
        IN  IF ~systemChanged(storedSys, sys)
            THEN [history |-> history, outcome |-> "return", error |-> NoError,
                  changed |-> FALSE, save |-> FALSE]
            ELSE
            LET u == undoSystem(storedSys, history)
                fwd == forwardSystem(sys, t)
                h1 == Put(withSystem(history, si, updatedSystem(storedSys, fwd)),
                          "currentTime", fwd.time)
                sec == stripSector(storedSec)
            IN  IF IsUndefined(curSector)
                THEN [history |-> h1, outcome |-> "TypeError",
                      error |-> [kind |-> "TypeError"], changed |-> TRUE, save |-> FALSE]
                ELSE
                LET newSec == updatedSector(storedSec, curSector)
                    record == [system |-> fwd, sector |-> newSec]
                    undoR == [system |-> u, sector |-> sec]
                IN  [history |-> pushRecords(withSector(h1, ci, newSec), record, undoR),
                     outcome |-> "return", error |-> NoError, changed |-> TRUE,
                     save |-> TRUE]

\* saveHistoryToDisk(history): fs.writeFileSync throws when the instance's
\* directory does not exist; its third argument (a callback) is ignored.
canSave(history) == history.instance \in dirs

\* A faulty variant of saveHistoryToDisk: the write has not happened when the
\* call returns.
filesWithoutSave(history) == files

filesAfterSave(history) ==
    [i \in DOMAIN files \cup {history.instance} |->
        IF i = history.instance THEN JsonHistory(history) ELSE files[i]]

\* getSector was not called.
NotConsulted == [consulted |-> FALSE]

\* The call repeats the one before it: the same update for the same instance.
Repeats(sys, instance) ==
    /\ lastCall.op = "applySystemUpdate"
    /\ lastCall.sys = sys
    /\ lastCall.instance = instance

applySystemUpdate(sys, instance) ==
    /\ UNCHANGED <<fatal, rootExists, dirs, pending, nCreated, created>>
    /\ IF fatal
       THEN /\ lastCall' = [op |-> "applySystemUpdate", instance |-> instance,
                            sys |-> sys, outcome |-> "fatal", error |-> NoError,
                            changed |-> FALSE, save |-> "none",
                            curSector |-> NotConsulted,
                            repeat |-> Repeats(sys, instance),
                            before |-> cachedOrNone(instance)]
            /\ UNCHANGED <<loadedGalaxies, files, clock>>
       ELSE IF ~canLoad(instance)
       THEN /\ lastCall' = [op |-> "applySystemUpdate", instance |-> instance,
                            sys |-> sys, outcome |-> "NotFound",
                            error |-> [kind |-> "NotFound", instance |-> instance],
                            changed |-> FALSE, save |-> "none",
                            curSector |-> NotConsulted,
                            repeat |-> Repeats(sys, instance),
                            before |-> NoHistory]
            /\ UNCHANGED <<loadedGalaxies, files, clock>>
       ELSE \E curSector \in LiveSectors \cup {NoSector}, t \in Now :
            LET loaded == cacheAfterLoad(instance)
                r == applyToHistory(loaded[instance], sys, instance, curSector, t)
                saved == r.save /\ canSave(r.history)
            IN  /\ Len(r.history.snapshots) <= MaxRecords
                /\ loadedGalaxies' = [loaded EXCEPT ![instance] = r.history]
                /\ files' = IF saved THEN filesAfterSave(r.history) ELSE files
                /\ clock' = IF r.changed THEN t ELSE clock
                /\ lastCall' =
                      [op |-> "applySystemUpdate", instance |-> instance, sys |-> sys,
                       outcome |-> IF r.save /\ ~saved THEN "IOError" ELSE r.outcome,
                       error |-> IF r.save /\ ~saved THEN [kind |-> "IOError"]
                                 ELSE r.error,
                       changed |-> r.changed,
                       save |-> IF ~r.save THEN "none"
                                ELSE IF saved THEN "written" ELSE "failed",
                       curSector |-> IF r.changed THEN curSector ELSE NotConsulted,
                       repeat |-> Repeats(sys, instance),
                       before |-> loaded[instance]]

-----------------------------------------------------------------------------
(* applySectorsUpdate of the shipped historymanager.js (src/unnamed/part_002) *)

\* The sector updates the game sends.
SectorCandidate(id, owner) ==
    [id |-> id, name |-> "simple sector", owner |-> owner,
     division |-> IF owner = Null THEN DivNull ELSE DivArk,
     adjacent |-> "adj2", centroid |-> "cen2", points |-> "pts2"]

\* The `sectors` argument: null, or a list of sector updates.
NullSectors == [isNull |-> TRUE]

SectorUpdates ==
    { NullSectors,
      [isNull |-> FALSE, list |-> <<SectorCandidate(0, "ark"), SectorCandidate(0, Null)>>],
      [isNull |-> FALSE, list |-> <<SectorCandidate(0, Null), SectorCandidate(1, "ark")>>] }

\* sec after lines 175-179: the forward record.
forwardSector(sec, t) ==
    stripSector(Put(Put(sec, "type", "sector"), "time", ISO(t)))

\* u of lines 181-183: the undo record.
undoSectorFlat(curr, history) ==
    Put(Put(curr, "time", Get(history, "currentTime")), "type", "sector")

\* curr after lines 188-189.
updatedSectorFlat(curr, sec) ==
    Put(Put(curr, "owner", Get(sec, "owner")), "division", sec.division)

\* Lines 185-186.
pushFlat(history, sec, u) ==
    [history EXCEPT !.snapshots = Append(@, sec), !.undo = Append(@, u)]

\* A faulty variant of the test of line 174: a sector whose division differs
\* counts as changed too.
sectorChangedOrRedivided(curr, sec) ==
    Get(curr, "owner") # Get(sec, "owner") \/ curr.division # sec.division

\* The test of line 174.
sectorChanged(curr, sec) == Get(curr, "owner") # Get(sec, "owner")

\* The forEach of lines 171-193 from element n on: the History it leaves, how
\* it ends, and how many times saveHistoryToDisk was reached.
RECURSIVE sectorsLoop(_, _, _, _, _)
sectorsLoop(history, list, n, t, saves) ==
    IF n > Len(list)
    THEN [history |-> history, outcome |-> "return", saves |-> saves]
    ELSE
    LET sec == list[n]
        ci == getById(history.current.sectors, sec.id)
    IN  IF ci = 0
        THEN [history |-> history, outcome |-> "TypeError", saves |-> saves]
        ELSE
        LET curr == history.current.sectors[ci]
        IN  IF ~sectorChanged(curr, sec)
            THEN sectorsLoop(history, list, n + 1, t, saves)
            ELSE
            LET fwd == forwardSector(sec, t)
                u == undoSectorFlat(curr, history)
                h1 == withSector(pushFlat(history, fwd, u), ci, updatedSectorFlat(curr, fwd))
            IN  IF canSave(h1)
                THEN sectorsLoop(h1, list, n + 1, t, saves + 1)
                ELSE [history |-> h1, outcome |-> "IOError", saves |-> saves]

\* applySectorsUpdate(sectors, instance), for journals of up to maxRecords
\* records.
applySectorsUpdateWithin(sectors, instance, maxRecords) ==
    /\ UNCHANGED <<fatal, rootExists, dirs, pending, nCreated, created>>
    /\ IF fatal \/ sectors.isNull
       THEN /\ lastCall' = [op |-> "applySectorsUpdate", instance |-> instance,
                            sectors |-> sectors,
                            outcome |-> IF fatal THEN "fatal" ELSE "return",
                            save |-> "none", before |-> cachedOrNone(instance)]
            /\ UNCHANGED <<loadedGalaxies, files, clock>>
       ELSE IF ~canLoad(instance)
       THEN /\ lastCall' = [op |-> "applySectorsUpdate", instance |-> instance,
                            sectors |-> sectors, outcome |-> "NotFound",
                            save |-> "none", before |-> NoHistory]
            /\ UNCHANGED <<loadedGalaxies, files, clock>>
       ELSE \E t \in Now :
            LET loaded == cacheAfterLoad(instance)
                r == sectorsLoop(loaded[instance], sectors.list, 1, t, 0)
                appended == r.history.snapshots # loaded[instance].snapshots
            IN  /\ Len(r.history.snapshots) <= maxRecords
                /\ loadedGalaxies' = [loaded EXCEPT ![instance] = r.history]
                /\ files' = IF r.saves > 0 THEN filesAfterSave(r.history) ELSE files
                /\ clock' = IF appended THEN t ELSE clock
                /\ lastCall' =
                      [op |-> "applySectorsUpdate", instance |-> instance,
                       sectors |-> sectors, outcome |-> r.outcome,
                       save |-> IF r.outcome = "IOError" THEN "failed"
                                ELSE IF r.saves > 0 THEN "written" ELSE "none",
                       before |-> loaded[instance]]

applySectorsUpdate(sectors, instance) ==
    applySectorsUpdateWithin(sectors, instance, MaxRecords)

-----------------------------------------------------------------------------

Next ==
    \/ RootMkdirDone
    \/ \E i \in NewInstances, g \in Galaxies : processNewInstance(i, g)
    \/ \E op \in pending : MkdirDone(op)
    \/ \E op \in pending : MkdirFailed(op)
    \/ \E op \in pending : MkdirCallback(op)
    \/ \E op \in pending : WriteFileDone(op)
    \/ \E sys \in Candidates, i \in Instances : applySystemUpdate(sys, i)
    \/ \E sectors \in SectorUpdates, i \in Instances : applySectorsUpdate(sectors, i)

Spec == Init /\ [][Next]_vars

-----------------------------------------------------------------------------
(* Properties of applySystemUpdate *)

\* The last step was an applySystemUpdate call that got past the fatal flag
\* and loaded the History of its instance.
Ran == lastCall.op = "applySystemUpdate" /\ lastCall.outcome \notin {"fatal", "NotFound"}

Known(list, id) == \E n \in 1..Len(list) : list[n].id = id

\* list[n] is the element a lookup of id yields.
IsStored(list, n, id) ==
    /\ n \in 1..Len(list)
    /\ list[n].id = id
    /\ \A m \in (n + 1)..Len(list) : list[m].id # id

Differs(stored, sys) ==
    \/ Get(stored, "owner") # Get(sys, "owner")
    \/ Get(stored, "status") # Get(sys, "status")

SameJournal(h, b) ==
    /\ h.snapshots = b.snapshots
    /\ h.undo = b.undo
    /\ h.current = b.current

\* C1: an applySystemUpdate call that is not silenced by the fatal flag, whose
\* History loads, whose system and sector are in current, whose live sector
\* lookup yields a sector and whose candidate differs from the stored system
\* in owner or status appends exactly one record to snapshots and one to undo
\* at the same index; the forward record's system has the candidate's owner
\* and status, the undo record's system those the stored system had before.
PairedRecordAppended ==
    Ran =>
      LET b == lastCall.before
          h == loadedGalaxies[lastCall.instance]
          sys == lastCall.sys
          n == Len(b.snapshots) + 1
      IN  \A k \in 1..Len(b.current.stellar_systems) :
            ( /\ IsStored(b.current.stellar_systems, k, sys.id)
              /\ Known(b.current.sectors, sys.sector_id)
              /\ Differs(b.current.stellar_systems[k], sys)
              /\ ~IsUndefined(lastCall.curSector) )
            => /\ Len(h.snapshots) = n
               /\ Len(h.undo) = n
               /\ SubSeq(h.snapshots, 1, n - 1) = b.snapshots
               /\ SubSeq(h.undo, 1, n - 1) = b.undo
               /\ Get(h.snapshots[n].system, "owner") = Get(sys, "owner")
               /\ Get(h.snapshots[n].system, "status") = Get(sys, "status")
               /\ Get(h.undo[n].system, "owner") = Get(b.current.stellar_systems[k], "owner")
               /\ Get(h.undo[n].system, "status") = Get(b.current.stellar_systems[k], "status")

\* A call has appended a record whose undo side holds another owner than its
\* forward side.
PairedRecordAppendedWitness ==
    /\ Ran /\ lastCall.changed /\ lastCall.outcome = "return"
    /\ LET h == loadedGalaxies[lastCall.instance]
           n == Len(lastCall.before.snapshots) + 1
       IN  /\ Len(h.snapshots) = n
           /\ h.snapshots[n].system.owner = "Granite"
           /\ h.undo[n].system.owner = Null

\* C2: in every reachable state each cached History and each persisted
\* document has as many snapshots as undo records.
JournalLengthsAgree ==
    /\ \A i \in DOMAIN loadedGalaxies :
          Len(loadedGalaxies[i].snapshots) = Len(loadedGalaxies[i].undo)
    /\ \A i \in DOMAIN files : Len(files[i].snapshots) = Len(files[i].undo)

\* A call has failed on an instance whose journal, cached and persisted, is
\* not empty.
JournalLengthsAgreeWitness ==
    /\ lastCall.op \in {"applySystemUpdate", "applySectorsUpdate"}
    /\ lastCall.outcome \in {"UnknownSystem", "UnknownSector", "TypeError"}
    /\ lastCall.instance \in DOMAIN loadedGalaxies
    /\ lastCall.instance \in DOMAIN files
    /\ Len(loadedGalaxies[lastCall.instance].snapshots) > 0
    /\ Len(files[lastCall.instance].snapshots) > 0

\* C3: an applySystemUpdate call (not silenced, History loaded) whose
\* candidate has the owner and the status of the stored system leaves the
\* History as it was and performs no save, whatever else the candidate holds;
\* with the sector known it returns normally.
SameOwnerAndStatusIsNoOp ==
    Ran =>
      LET b == lastCall.before
          sys == lastCall.sys
      IN  \A k \in 1..Len(b.current.stellar_systems) :
            ( /\ IsStored(b.current.stellar_systems, k, sys.id)
              /\ ~Differs(b.current.stellar_systems[k], sys) )
            => /\ SameJournal(loadedGalaxies[lastCall.instance], b)
               /\ loadedGalaxies[lastCall.instance] = b
               /\ lastCall.save = "none"
               /\ Known(b.current.sectors, sys.sector_id) => lastCall.outcome = "return"

\* A candidate with the stored owner and status, another name and transient
\* fields has been applied.
SameOwnerAndStatusIsNoOpWitness ==
    /\ Ran /\ lastCall.outcome = "return" /\ ~lastCall.changed
    /\ "position" \in DOMAIN lastCall.sys
    /\ \E k \in 1..Len(lastCall.before.current.stellar_systems) :
          LET stored == lastCall.before.current.stellar_systems[k]
          IN  /\ stored.id = lastCall.sys.id
              /\ stored.owner = lastCall.sys.owner
              /\ stored.status = lastCall.sys.status
              /\ stored.name # lastCall.sys.name

\* C4: an applySystemUpdate call that repeats the call before it (the same
\* candidate for the same instance, nothing in between) leaves snapshots, undo
\* and current as the first call left them and saves nothing.
ReapplyingAppendsNothing ==
    (lastCall.op = "applySystemUpdate" /\ lastCall.repeat) =>
      /\ lastCall.save = "none"
      /\ IF "snapshots" \in DOMAIN lastCall.before
         THEN SameJournal(loadedGalaxies[lastCall.instance], lastCall.before)
         ELSE cachedOrNone(lastCall.instance) = NoHistory

\* The candidate the last record was appended for has been applied again.
ReapplyingAppendsNothingWitness ==
    /\ lastCall.op = "applySystemUpdate" /\ lastCall.repeat
    /\ lastCall.outcome = "return"
    /\ LET b == lastCall.before
           n == Len(b.snapshots)
       IN  /\ n > 0
           /\ b.snapshots[n].system.id = lastCall.sys.id
           /\ b.snapshots[n].system.owner = lastCall.sys.owner
           /\ b.snapshots[n].system.status = lastCall.sys.status
           /\ b.snapshots[n].system.name = lastCall.sys.name

\* C5: the base of the History created for an instance stays the galaxy it
\* was created with, whatever applySystemUpdate and applySectorsUpdate calls
\* follow.
BaseIsImmutable ==
    \A i \in DOMAIN created :
        /\ i \in DOMAIN loadedGalaxies
        /\ loadedGalaxies[i].base = created[i]

\* Updates have changed the current state of a created History.
BaseIsImmutableWitness ==
    \E i \in DOMAIN created :
        /\ Len(loadedGalaxies[i].snapshots) > 0
        /\ loadedGalaxies[i].current # loadedGalaxies[i].base
        /\ loadedGalaxies[i].current.stellar_systems[1].owner = "Granite"
        /\ loadedGalaxies[i].current.sectors[1].owner = "ark"

UnknownSectorFails ==
    Ran =>
      LET b == lastCall.before
          sys == lastCall.sys
      IN  (Known(b.current.stellar_systems, sys.id)
             /\ ~Known(b.current.sectors, sys.sector_id))
          => /\ lastCall.error = [kind |-> "UnknownSector", id |-> sys.sector_id,
                                  instance |-> lastCall.instance]
             /\ SameJournal(loadedGalaxies[lastCall.instance], b)
             /\ lastCall.save = "none"

\* A known system in an unknown sector has been applied.
UnknownSectorFailsWitness ==
    /\ Ran
    /\ Known(lastCall.before.current.stellar_systems, lastCall.sys.id)
    /\ ~Known(lastCall.before.current.sectors, lastCall.sys.sector_id)
    /\ lastCall.outcome = "UnknownSector"

\* C10: when an applySystemUpdate call that detected a change returns, the
\* persisted document of the instance holds the snapshots, undo and current
\* of the cached History (as JSON renders them).
ChangePersistedOnReturn ==
    (Ran /\ lastCall.changed /\ lastCall.outcome = "return") =>
      LET i == lastCall.instance
          doc == JsonHistory(loadedGalaxies[i])
      IN  /\ i \in DOMAIN files
          /\ files[i].snapshots = doc.snapshots
          /\ files[i].undo = doc.undo
          /\ files[i].current = doc.current

\* A change has been recorded and saved over a document that did not hold it.
ChangePersistedOnReturnWitness ==
    /\ Ran /\ lastCall.changed /\ lastCall.outcome = "return"
    /\ lastCall.save = "written"
    /\ Len(files[lastCall.instance].snapshots) = Len(lastCall.before.snapshots) + 1

-----------------------------------------------------------------------------
(* Properties of processNewInstance *)

\* The last step was a processNewInstance call that got past the fatal flag.
Created == lastCall.op = "processNewInstance" /\ lastCall.outcome = "return"

\* C8: processNewInstance (not silenced) for an instance that has no History,
\* cached or persisted, caches a History whose base and current are the given
\* galaxy, whose snapshots and undo are empty, whose instance is the given id
\* and whose VERSION is LATEST_HISTORY_VESRION.
CreateOnFreshInstance ==
    (Created /\ ~lastCall.existed) =>
      /\ lastCall.instance \in DOMAIN loadedGalaxies
      /\ LET h == loadedGalaxies[lastCall.instance]
         IN  /\ h.base = lastCall.galaxy
             /\ h.current = lastCall.galaxy
             /\ h.snapshots = <<>>
             /\ h.undo = <<>>
             /\ h.instance = lastCall.instance
             /\ h.VERSION = LATEST_HISTORY_VESRION

\* A History has been created for an instance that had none.
CreateOnFreshInstanceWitness ==
    /\ Created /\ ~lastCall.existed
    /\ lastCall.instance \notin DOMAIN files
    /\ lastCall.before = NoHistory

\* C9: processNewInstance for an instance that has a History (cached or
\* persisted) overwrites nothing: the History getHistory yields for the
\* instance is the one it yielded before the call.
CreateDoesNotOverwrite ==
    (lastCall.op = "processNewInstance" /\ lastCall.existed) =>
      historyOrNone(lastCall.instance) = lastCall.before

\* A cached History that held a record has been replaced by an empty one
\* built from the new galaxy.
CreateOverwritesWitness ==
    /\ lastCall.op = "processNewInstance" /\ lastCall.existed
    /\ "snapshots" \in DOMAIN lastCall.before
    /\ Len(lastCall.before.snapshots) > 0
    /\ loadedGalaxies[lastCall.instance].snapshots = <<>>
    /\ loadedGalaxies[lastCall.instance].base = lastCall.galaxy
    /\ loadedGalaxies[lastCall.instance].base # lastCall.before.base

-----------------------------------------------------------------------------
(* getHistory and hasHistory called on their own, with documents that change
   behind the cache *)

\* MISSING_INSTANCE of the tests has no document; the others have one.
MISSING_INSTANCE == 11
LoadInstances == {MISSING_INSTANCE, 20, 30}

\* A document another session of the mod writes for the instance.
ExternalDocument(instance) == FreshDocument(instance, LiveGalaxy)

\* The documents the shipped historymanager.js wrote: no VERSION, a
\* currentTime, and flat updates in the journal.
LegacySystemUpdate ==
    [id |-> 1, name |-> "system name", owner |-> "Granite", sector_id |-> 0,
     status |-> "uninhabited", type |-> "system", time |-> ISO(0)]

LegacySystemUndo ==
    [id |-> 1, name |-> "system name", owner |-> Null, sector_id |-> 0,
     status |-> "uninhabited", type |-> "system", time |-> ISO(0)]

LegacyDocument(instance, galaxy, snapshots, undo) ==
    [start |-> ISO(0), base |-> galaxy, current |-> galaxy, snapshots |-> snapshots,
     undo |-> undo, instance |-> instance, currentTime |-> ISO(0)]

\* A legacy document right after its creation, and one with a journal.
LegacyDocuments(instance) ==
    { LegacyDocument(instance, SimpleGalaxy, <<>>, <<>>),
      [LegacyDocument(instance, SimpleGalaxy, <<LegacySystemUpdate>>, <<LegacySystemUndo>>)
         EXCEPT !.current.stellar_systems[1].owner = "Granite"] }

\* The replay directory holds the documents of earlier sessions; that of
\* instance 30 may stem from the shipped version of the mod.
LoadInit ==
    /\ loadedGalaxies = <<>>
    /\ fatal = FALSE
    /\ rootExists = TRUE
    /\ dirs = {20, 30}
    /\ \E doc \in {FreshDocument(30, EmptyGalaxy)} \cup LegacyDocuments(30) :
          files = [i \in {20, 30} |->
                     IF i = 20 THEN FreshDocument(i, SimpleGalaxy) ELSE doc]
    /\ pending = {}
    /\ clock = 0
    /\ nCreated = 0
    /\ lastCall = [op |-> "constructor"]
    /\ created = <<>>

\* The instances for which a getHistory call has failed so far.
Missed == IF "missed" \in DOMAIN lastCall THEN lastCall.missed ELSE {}

\* A faulty variant of a failed load: the new History is cached before the
\* file is looked for.
cacheAfterMissPoisoned(instance) ==
    [i \in DOMAIN loadedGalaxies \cup {instance} |->
        IF i = instance THEN EmptyHistory ELSE loadedGalaxies[i]]

\* The cache after getHistory(instance) has thrown at line 49: the
\* assignment of line 53 is not reached.
cacheAfterMiss(instance) == loadedGalaxies

\* getHistory(instance)
getHistory(instance) ==
    /\ UNCHANGED <<fatal, rootExists, dirs, files, pending, clock, nCreated, created>>
    /\ IF canLoad(instance)
       THEN /\ loadedGalaxies' = cacheAfterLoad(instance)
            /\ lastCall' = [op |-> "getHistory", instance |-> instance,
                            outcome |-> "return", error |-> NoError,
                            result |-> cacheAfterLoad(instance)[instance],
                            wasCached |-> instance \in DOMAIN loadedGalaxies,
                            before |-> cachedOrNone(instance),
                            missed |-> Missed]
       ELSE /\ loadedGalaxies' = cacheAfterMiss(instance)
            /\ lastCall' = [op |-> "getHistory", instance |-> instance,
                            outcome |-> "NotFound",
                            error |-> [kind |-> "NotFound", instance |-> instance],
                            result |-> NoHistory,
                            wasCached |-> FALSE,
                            before |-> NoHistory,
                            missed |-> Missed \cup {instance}]

\* hasHistory(instance) called by the mod.
hasHistoryCall(instance) ==
    /\ lastCall' = [op |-> "hasHistory", instance |-> instance,
                    result |-> hasHistory(instance),
                    cacheBefore |-> loadedGalaxies, filesBefore |-> files,
                    missed |-> Missed]
    /\ UNCHANGED <<loadedGalaxies, fatal, rootExists, dirs, files, pending, clock,
                   nCreated, created>>

\* The environment writes the instance's document behind the manager's back.
DocumentChanged(instance) ==
    /\ IF instance \in DOMAIN files
       THEN files[instance] # ExternalDocument(instance)
       ELSE TRUE
    /\ dirs' = dirs \cup {instance}
    /\ files' = [i \in DOMAIN files \cup {instance} |->
                    IF i = instance THEN ExternalDocument(instance) ELSE files[i]]
    /\ lastCall' = [op |-> "documentChanged", instance |-> instance, missed |-> Missed]
    /\ UNCHANGED <<loadedGalaxies, fatal, rootExists, pending, clock, nCreated, created>>

\* saveHistoryToDisk(history) called with a History that getHistory has
\* returned.
saveHistoryToDisk(instance) ==
    /\ instance \in DOMAIN loadedGalaxies
    /\ LET history == loadedGalaxies[instance]
       IN  IF canSave(history)
           THEN /\ files' = filesAfterSave(history)
                /\ lastCall' = [op |-> "saveHistoryToDisk", instance |-> history.instance,
                                outcome |-> "return", filesBefore |-> files,
                                missed |-> Missed]
           ELSE /\ files' = files
                /\ lastCall' = [op |-> "saveHistoryToDisk", instance |-> history.instance,
                                outcome |-> "throw", filesBefore |-> files,
                                missed |-> Missed]
    /\ UNCHANGED <<loadedGalaxies, fatal, rootExists, dirs, pending, clock, nCreated,
                   created>>

LoadNext ==
    \/ \E i \in LoadInstances : getHistory(i)
    \/ \E i \in LoadInstances : hasHistoryCall(i)
    \/ \E i \in LoadInstances : DocumentChanged(i)
    \/ \E i \in LoadInstances : saveHistoryToDisk(i)

LoadSpec == LoadInit /\ [][LoadNext]_vars

\* C12: a getHistory call for an instance that is cached returns the cached
\* History and leaves it in the cache, whatever the instance's document
\* holds by then.
CachedHistoryIsReturned ==
    (lastCall.op = "getHistory" /\ lastCall.wasCached) =>
      /\ lastCall.outcome = "return"
      /\ lastCall.result = lastCall.before
      /\ loadedGalaxies[lastCall.instance] = lastCall.before

\* A cached History has been returned after its document was replaced by
\* another one.
CachedHistoryIsReturnedWitness ==
    /\ lastCall.op = "getHistory" /\ lastCall.wasCached
    /\ files[lastCall.instance] = ExternalDocument(lastCall.instance)
    /\ lastCall.result.current # files[lastCall.instance].current
    /\ lastCall.result.current = SimpleGalaxy

\* C13: a getHistory call for an instance that is not cached and has no
\* document throws the error that names the instance as not found and adds
\* nothing to the cache; once the document exists, a call for an instance
\* that failed before returns the History read from it.
MissingHistoryIsNotFound ==
    (lastCall.op = "getHistory" /\ ~lastCall.wasCached) =>
      IF lastCall.instance \notin DOMAIN files
      THEN /\ lastCall.outcome = "NotFound"
           /\ lastCall.error = [kind |-> "NotFound", instance |-> lastCall.instance]
           /\ lastCall.instance \notin DOMAIN loadedGalaxies
      ELSE /\ lastCall.outcome = "return"
           /\ lastCall.result = ObjectAssign(EmptyHistory, files[lastCall.instance])
           /\ loadedGalaxies[lastCall.instance] = lastCall.result

\* The instance without a document has failed to load, got its document, and
\* loaded.
MissingHistoryIsNotFoundWitness ==
    /\ lastCall.op = "getHistory"
    /\ lastCall.instance = MISSING_INSTANCE
    /\ lastCall.instance \in lastCall.missed
    /\ lastCall.outcome = "return"
    /\ ~lastCall.wasCached

\* C14: hasHistory returns true exactly when the instance is cached or its
\* document exists, and changes neither the cache nor the documents.
HasHistoryIsExact ==
    lastCall.op = "hasHistory" =>
      /\ lastCall.result = (lastCall.instance \in DOMAIN lastCall.cacheBefore
                              \/ lastCall.instance \in DOMAIN lastCall.filesBefore)
      /\ loadedGalaxies = lastCall.cacheBefore
      /\ files = lastCall.filesBefore

\* hasHistory has answered true for an instance that has a document and is
\* not cached.
HasHistoryIsExactWitness ==
    /\ lastCall.op = "hasHistory"
    /\ lastCall.result
    /\ lastCall.instance \notin DOMAIN loadedGalaxies
    /\ lastCall.instance \in DOMAIN files

-----------------------------------------------------------------------------
(* The fatal flag *)

MutatingCalls == {"processNewInstance", "applySystemUpdate", "applySectorsUpdate"}

\* C11: once the fatal flag is set it stays set, and every later call of
\* processNewInstance, applySystemUpdate or applySectorsUpdate returns
\* without an error, leaves the cache as it was, writes nothing and starts
\* no file operation.
FatalSilencesCalls ==
    [][fatal =>
         /\ fatal'
         /\ lastCall'.op \in MutatingCalls =>
               /\ lastCall'.outcome = "fatal"
               /\ loadedGalaxies' = loadedGalaxies
               /\ files' = files
               /\ dirs' = dirs
               /\ pending' = pending]_vars

\* An update that differs from the stored system has been silenced on an
\* instance whose History is cached.
FatalSilencesCallsWitness ==
    /\ fatal
    /\ lastCall.op = "applySystemUpdate"
    /\ lastCall.outcome = "fatal"
    /\ "snapshots" \in DOMAIN lastCall.before
    /\ \E k \in 1..Len(lastCall.before.current.stellar_systems) :
          /\ lastCall.before.current.stellar_systems[k].id = lastCall.sys.id
          /\ Differs(lastCall.before.current.stellar_systems[k], lastCall.sys)

-----------------------------------------------------------------------------
(* The records applySystemUpdate appends *)

\* The last step was an applySystemUpdate call that appended its records.
Appended == Ran /\ lastCall.changed /\ lastCall.outcome \in {"return", "IOError"}

LastSnapshot == loadedGalaxies[lastCall.instance].snapshots[Len(lastCall.before.snapshots) + 1]
LastUndo == loadedGalaxies[lastCall.instance].undo[Len(lastCall.before.undo) + 1]

SystemTransients == {"position", "score", "receivedAt"}
SectorTransients == {"adjacent", "centroid", "points"}

Stripped(record) ==
    /\ DOMAIN record.system \cap SystemTransients = {}
    /\ DOMAIN record.sector \cap SectorTransients = {}

\* C15: the records an applySystemUpdate call appends to snapshots and undo
\* hold no transient field: no position, score or receivedAt in the system
\* part, no adjacent, centroid or points in the sector part.
AppendedRecordsAreStripped ==
    Appended => Stripped(LastSnapshot) /\ Stripped(LastUndo)

\* The forward record holds the geometry of the stored sector, while the
\* undo record and both system parts are stripped.
ForwardSectorKeepsGeometry ==
    /\ Appended
    /\ SectorTransients \subseteq DOMAIN LastSnapshot.sector
    /\ DOMAIN LastSnapshot.system \cap SystemTransients = {}
    /\ Stripped(LastUndo)
    /\ "position" \in DOMAIN lastCall.sys

\* C16: the records an applySystemUpdate call appends have the shape
\* {time, system, sector}, the timestamp at the top level of the record.
AppendedRecordsHaveTime ==
    Appended =>
      /\ DOMAIN LastSnapshot = {"time", "system", "sector"}
      /\ DOMAIN LastUndo = {"time", "system", "sector"}

\* The appended records are {system, sector}: the time of the change is a
\* property of the forward record's system part only.
AppendedRecordsLackTime ==
    /\ Appended
    /\ DOMAIN LastSnapshot = {"system", "sector"}
    /\ DOMAIN LastUndo = {"system", "sector"}
    /\ LastSnapshot.system.time = ISO(clock)

-----------------------------------------------------------------------------
(* class HistoryVersionUpgrader: raw documents *)

\* The upgrader takes any JavaScript value.  A value is a record tagged with
\* its typeof-like kind; an object is the tag together with its properties, a
\* number is its decimal text, a string is an ordinary text or the JSON text
\* of a value.
UndefinedValue == [t |-> "undefined"]
NullValue == [t |-> "null"]
BooleanValue(b) == [t |-> "boolean", b |-> b]
NumberValue(text) == [t |-> "number", n |-> text]
TextValue(text) == [t |-> "string", s |-> text]
JsonText(value) == [t |-> "string", json |-> value]
ArrayValue(seq) == [t |-> "array", a |-> seq]
EmptyObject == [t |-> "object"]

\* What an expression yields when its evaluation throws.
Thrown == [t |-> "throw"]

\* ToBoolean
Truthy(x) ==
    CASE x.t \in {"undefined", "null"} -> FALSE
      [] x.t = "boolean" -> x.b
      [] x.t = "number" -> x.n \notin {"0", "NaN"}
      [] x.t = "string" -> IF "s" \in DOMAIN x THEN x.s # "" ELSE TRUE
      [] OTHER -> TRUE

\* x.k: a TypeError on undefined and null, undefined for a missing property.
Prop(x, k) ==
    CASE x.t \in {"undefined", "null"} -> Thrown
      [] x.t = "object" -> IF k \in DOMAIN x \ {"t"} THEN x[k] ELSE UndefinedValue
      [] x.t = "array" /\ k = "length" -> NumberValue(ToString(Len(x.a)))
      [] OTHER -> UndefinedValue

\* x[0]
First(x) ==
    IF x.t = "array" /\ Len(x.a) > 0 THEN x.a[1] ELSE UndefinedValue

\* x.length > 0
HasElements(x) == x.t = "array" /\ Len(x.a) > 0

\* JSON.parse(x): a SyntaxError on a text that is no JSON text and on
\* undefined; a number or a boolean is converted to its text and parsed back.
JsonParse(x) ==
    CASE x.t = "string" -> IF "json" \in DOMAIN x THEN x.json ELSE Thrown
      [] x.t \in {"number", "boolean", "null"} -> x
      [] OTHER -> Thrown

\* #convertHistoryToObj(hist): typeof null and typeof [] are "object".
convertHistoryToObj(hist) ==
    IF hist.t \in {"object", "array", "null"} THEN hist ELSE JsonParse(hist)

\* isAlphaVersion(h)
isAlphaVersion(h) ==
    IF convertHistoryToObj(h) = Thrown THEN Thrown ELSE BooleanValue(FALSE)

\* A faulty variant of isBetaVersion: only the shape of the first snapshot
\* is looked at.
isBetaVersionByShape(h) ==
    LET hist == convertHistoryToObj(h)
        snapshots == Prop(hist, "snapshots")
    IN  IF hist = Thrown \/ snapshots = Thrown THEN BooleanValue(FALSE)
        ELSE IF ~Truthy(snapshots) THEN snapshots
        ELSE IF ~HasElements(snapshots) THEN BooleanValue(FALSE)
        ELSE IF Prop(First(snapshots), "system") = Thrown THEN BooleanValue(FALSE)
        ELSE BooleanValue(~Truthy(Prop(First(snapshots), "system")))

\* isBetaVersion(h): the && chain of line 287 yields its first falsy operand;
\* whatever throws is caught and false returned.
isBetaVersion(h) ==
    LET hist == convertHistoryToObj(h)
        version == Prop(hist, "VERSION")
        snapshots == Prop(hist, "snapshots")
    IN  IF hist = Thrown \/ version = Thrown THEN BooleanValue(FALSE)
        ELSE IF Truthy(version) THEN BooleanValue(FALSE)
        ELSE IF ~Truthy(snapshots) THEN snapshots
        ELSE IF ~HasElements(snapshots) THEN BooleanValue(FALSE)
        ELSE IF Prop(First(snapshots), "system") = Thrown THEN BooleanValue(FALSE)
        ELSE BooleanValue(~Truthy(Prop(First(snapshots), "system")))

\* A faulty variant of detectVersion: the outer try / catch is missing.
detectVersionUnguarded(h) ==
    LET hist == convertHistoryToObj(h)
    IN  IF hist = Thrown THEN Thrown
        ELSE IF Truthy(isBetaVersion(hist)) THEN NumberValue(ToString(DUMMY_BETA_VERSION))
        ELSE Prop(hist, "VERSION")

\* detectVersion(h)
detectVersion(h) ==
    LET hist == convertHistoryToObj(h)
    IN  IF hist = Thrown THEN BooleanValue(FALSE)
        ELSE IF isAlphaVersion(hist) = Thrown THEN BooleanValue(FALSE)
        ELSE IF Truthy(isAlphaVersion(hist)) THEN NumberValue(ToString(DUMMY_ALPHA_VERSION))
        ELSE IF Truthy(isBetaVersion(hist)) THEN NumberValue(ToString(DUMMY_BETA_VERSION))
        ELSE IF Prop(hist, "VERSION") = Thrown THEN BooleanValue(FALSE)
        ELSE Prop(hist, "VERSION")

\* A faulty variant of shouldUpgradeHistory: a version that is there is taken
\* for the latest.
shouldUpgradeUnversioned(h) ==
    LET hist == convertHistoryToObj(h)
        version == Prop(hist, "VERSION")
    IN  IF hist = Thrown \/ version = Thrown THEN Thrown
        ELSE BooleanValue(~Truthy(version))

\* shouldUpgradeHistory(h): nothing is caught here.
shouldUpgradeHistory(h) ==
    LET hist == convertHistoryToObj(h)
        version == Prop(hist, "VERSION")
    IN  IF hist = Thrown \/ version = Thrown THEN Thrown
        ELSE BooleanValue(~Truthy(version)
                            \/ version # NumberValue(ToString(LATEST_HISTORY_VESRION)))

-----------------------------------------------------------------------------
(* The raw documents the upgrader is applied to *)

\* Version numbers are positive: History.VERSION is 1, the tests use 0.5.
RawVersions == {NumberValue("0.5"), NumberValue(ToString(LATEST_HISTORY_VESRION)),
                NumberValue("2")}

\* Journal entries: the empty entry of EMPTY_BETA_HISTORY, a flat update of
\* the beta format, a bundled record, and null.
FlatEntry == [t |-> "object", type |-> TextValue("system"), owner |-> TextValue("Granite"),
              id |-> NumberValue("1"), time |-> NumberValue("1")]
BundledEntry == [t |-> "object",
                 system |-> [t |-> "object", owner |-> TextValue("Granite"),
                             id |-> NumberValue("1")],
                 sector |-> [t |-> "object", owner |-> TextValue("ark"),
                             id |-> NumberValue("0")]]

RawSnapshots ==
    { ArrayValue(<<>>), ArrayValue(<<EmptyObject>>), ArrayValue(<<FlatEntry, BundledEntry>>),
      ArrayValue(<<BundledEntry, FlatEntry>>), ArrayValue(<<NullValue>>), NullValue }

\* Objects with and without VERSION and snapshots.
RawObjects ==
    LET versioned == {EmptyObject} \cup {Put(EmptyObject, "VERSION", v) :
                                           v \in RawVersions \cup {NullValue}}
    IN  versioned \cup {Put(o, "snapshots", x) : o \in versioned, x \in RawSnapshots}

\* Objects, their JSON texts, and what is no document at all.
RawInputs ==
    RawObjects \cup {JsonText(o) : o \in RawObjects}
      \cup { NullValue, UndefinedValue, JsonText(NullValue), JsonText(NumberValue("5")),
             TextValue(""), TextValue("{not json") }

VersionInit ==
    /\ loadedGalaxies = <<>>
    /\ fatal = FALSE
    /\ rootExists = TRUE
    /\ dirs = {}
    /\ files = <<>>
    /\ pending = {}
    /\ clock = 0
    /\ nCreated = 0
    /\ created = <<>>
    /\ \E raw \in RawInputs : lastCall = [op |-> "input", raw |-> raw]

detectVersionCall ==
    /\ lastCall.op = "input"
    /\ lastCall' = [op |-> "detectVersion", raw |-> lastCall.raw,
                    result |-> detectVersion(lastCall.raw)]
    /\ UNCHANGED <<loadedGalaxies, fatal, rootExists, dirs, files, pending, clock,
                   nCreated, created>>

isBetaVersionCall ==
    /\ lastCall.op = "input"
    /\ lastCall' = [op |-> "isBetaVersion", raw |-> lastCall.raw,
                    result |-> isBetaVersion(lastCall.raw)]
    /\ UNCHANGED <<loadedGalaxies, fatal, rootExists, dirs, files, pending, clock,
                   nCreated, created>>

shouldUpgradeHistoryCall ==
    /\ lastCall.op = "input"
    /\ lastCall' = [op |-> "shouldUpgradeHistory", raw |-> lastCall.raw,
                    result |-> shouldUpgradeHistory(lastCall.raw)]
    /\ UNCHANGED <<loadedGalaxies, fatal, rootExists, dirs, files, pending, clock,
                   nCreated, created>>

VersionNext ==
    \/ detectVersionCall
    \/ isBetaVersionCall
    \/ shouldUpgradeHistoryCall

VersionSpec == VersionInit /\ [][VersionNext]_vars

\* The document a raw input stands for: the object itself or the object its
\* JSON text describes; NullValue if it stands for none.
DocumentOf(raw) ==
    IF raw.t = "object" THEN raw
    ELSE IF raw.t = "string" /\ "json" \in DOMAIN raw /\ raw.json.t = "object" THEN raw.json
    ELSE NullValue

HasVersion(doc) ==
    /\ doc.t = "object"
    /\ "VERSION" \in DOMAIN doc
    /\ doc.VERSION.t = "number"

\* The shape of a beta document: no version, a non-empty list of snapshots,
\* the first of which is an object without a system property.
IsBetaShape(doc) ==
    /\ doc.t = "object"
    /\ ~HasVersion(doc)
    /\ "snapshots" \in DOMAIN doc
    /\ doc.snapshots.t = "array"
    /\ Len(doc.snapshots.a) > 0
    /\ doc.snapshots.a[1].t = "object"
    /\ "system" \notin DOMAIN doc.snapshots.a[1]

BetaTag == NumberValue(ToString(DUMMY_BETA_VERSION))
AlphaTag == NumberValue(ToString(DUMMY_ALPHA_VERSION))
LatestVersion == NumberValue(ToString(LATEST_HISTORY_VESRION))

\* C18: detectVersion never throws, whatever it is given; it never reports
\* the alpha tag; it returns the beta tag exactly when isBetaVersion holds;
\* it returns the version of a document that has a numeric one; and for
\* everything else (no document, a document without a version that is not
\* beta) its result is falsy.
DetectVersionIsTotal ==
    lastCall.op = "detectVersion" =>
      LET raw == lastCall.raw
          doc == DocumentOf(raw)
          result == lastCall.result
      IN  /\ result # Thrown
          /\ result # AlphaTag
          /\ (result = BetaTag) <=> Truthy(isBetaVersion(raw))
          /\ HasVersion(doc) => result = doc.VERSION
          /\ (~HasVersion(doc) /\ ~Truthy(isBetaVersion(raw))) => ~Truthy(result)

\* detectVersion has been given a text that is no JSON text and has returned
\* false.
DetectVersionIsTotalWitness ==
    /\ lastCall.op = "detectVersion"
    /\ lastCall.raw = TextValue("{not json")
    /\ lastCall.result = BooleanValue(FALSE)

\* C19: isBetaVersion never throws, and its result is truthy (then it is
\* true) exactly when the input is a document without a version whose
\* snapshots are a non-empty list and whose first snapshot is an object
\* without a system property.
IsBetaVersionIsExact ==
    lastCall.op = "isBetaVersion" =>
      /\ lastCall.result # Thrown
      /\ Truthy(lastCall.result) <=> IsBetaShape(DocumentOf(lastCall.raw))
      /\ Truthy(lastCall.result) => lastCall.result = BooleanValue(TRUE)

\* The JSON text of EMPTY_BETA_HISTORY has been recognised as beta.
IsBetaVersionIsExactWitness ==
    /\ lastCall.op = "isBetaVersion"
    /\ lastCall.raw = JsonText(Put(EmptyObject, "snapshots", ArrayValue(<<EmptyObject>>)))
    /\ lastCall.result = BooleanValue(TRUE)

\* C20: for an input that is a document (an object or the JSON text of
\* one), shouldUpgradeHistory is true exactly when detectVersion yields a
\* falsy result or something else than the latest version: true for version
\* 0.5, for a beta document and for a document without a version, false for
\* the latest version.
ShouldUpgradeFollowsDetectVersion ==
    (lastCall.op = "shouldUpgradeHistory" /\ DocumentOf(lastCall.raw) # NullValue) =>
      LET doc == DocumentOf(lastCall.raw)
          detected == detectVersion(lastCall.raw)
      IN  /\ lastCall.result = BooleanValue(~Truthy(detected) \/ detected # LatestVersion)
          /\ (HasVersion(doc) /\ doc.VERSION = NumberValue("0.5"))
                => lastCall.result = BooleanValue(TRUE)
          /\ IsBetaShape(doc) => lastCall.result = BooleanValue(TRUE)
          /\ ~HasVersion(doc) => lastCall.result = BooleanValue(TRUE)
          /\ (HasVersion(doc) /\ doc.VERSION = LatestVersion)
                => lastCall.result = BooleanValue(FALSE)

\* The JSON text of {VERSION: 0.5} is to be upgraded.
ShouldUpgradeFollowsDetectVersionWitness ==
    /\ lastCall.op = "shouldUpgradeHistory"
    /\ lastCall.raw = JsonText(Put(EmptyObject, "VERSION", NumberValue("0.5")))
    /\ lastCall.result = BooleanValue(TRUE)

-----------------------------------------------------------------------------
(* The version of a document across load and persist *)

\* A journal entry as the upgrader sees it: an object with or without a
\* system property.
RawEntry(entry) ==
    IF "system" \in DOMAIN entry THEN Put(EmptyObject, "system", EmptyObject)
    ELSE EmptyObject

\* A document or a History as the upgrader sees it: the properties its
\* functions read, VERSION and snapshots.
RawOf(doc) ==
    LET versioned == IF "VERSION" \in DOMAIN doc
                     THEN Put(EmptyObject, "VERSION", NumberValue(ToString(doc.VERSION)))
                     ELSE EmptyObject
    IN  Put(versioned, "snapshots",
            ArrayValue([n \in 1..Len(doc.snapshots) |-> RawEntry(doc.snapshots[n])]))

\* C17: the version detectVersion reports does not change without a
\* migration: that of the History getHistory builds is the version of the
\* document it was loaded from, and that of an instance's document is the
\* same after saveHistoryToDisk as before it.
VersionChangesOnlyByMigration ==
    /\ (lastCall.op = "getHistory" /\ lastCall.outcome = "return" /\ ~lastCall.wasCached) =>
          detectVersion(RawOf(lastCall.result))
            = detectVersion(RawOf(files[lastCall.instance]))
    /\ (lastCall.op = "saveHistoryToDisk" /\ lastCall.outcome = "return") =>
          detectVersion(RawOf(files[lastCall.instance]))
            = detectVersion(RawOf(lastCall.filesBefore[lastCall.instance]))

\* A legacy document that detectVersion reported as beta has been loaded and
\* persisted, and detectVersion now reports the latest version for it, with
\* its journal still in the flat format.
LegacyDocumentIsRetagged ==
    /\ lastCall.op = "saveHistoryToDisk"
    /\ lastCall.outcome = "return"
    /\ detectVersion(RawOf(lastCall.filesBefore[lastCall.instance])) = BetaTag
    /\ detectVersion(RawOf(files[lastCall.instance])) = LatestVersion
    /\ files[lastCall.instance].snapshots
         = lastCall.filesBefore[lastCall.instance].snapshots

-----------------------------------------------------------------------------
(* HistoryVersionUpgrader.upgradeHistoryFile *)

\* The flat entries of createSimpleBetaHistory: a system update and a sector
\* update with the same time.
BetaSystemUpdate ==
    [t |-> "object", type |-> TextValue("system"), owner |-> TextValue("Granite"),
     id |-> NumberValue("1"), sector_id |-> NumberValue("0"), time |-> NumberValue("1")]

BetaSectorUpdate ==
    [t |-> "object", type |-> TextValue("sector"), owner |-> TextValue("ark"),
     id |-> NumberValue("0"), time |-> NumberValue("1")]

\* createSimpleBetaHistory(), as far as the upgrader reads it.
SimpleBetaHistory ==
    Put(EmptyObject, "snapshots", ArrayValue(<<BetaSystemUpdate, BetaSectorUpdate>>))

\* The arguments of upgradeHistoryFile: JSON texts of documents, of values
\* that are no document, and a text that is no JSON text.
UpgradeInputs ==
    {JsonText(o) : o \in RawObjects \cup {SimpleBetaHistory}}
      \cup { JsonText(NullValue), JsonText(NumberValue("5")), TextValue("{not json") }

\* upgradeAlpha(json) and upgradeBeta(json): the bodies are empty, the
\* document is what it was.
upgradeAlpha(historyObj) == historyObj

upgradeBeta(historyObj) == historyObj

\* A faulty variant of the switch of lines 325-329: a version that is
\* falsy is unknown, any other is taken to have been handled.
isUnknownVersionIfFalsy(detectedVersion) == ~Truthy(detectedVersion)

\* The default branch of the switch is taken.
isUnknownVersion(detectedVersion) ==
    detectedVersion \notin { NumberValue(ToString(DUMMY_ALPHA_VERSION)),
                             NumberValue(ToString(DUMMY_BETA_VERSION)) }

\* The case of the switch that is taken for a version that is known.
upgradeStep(historyObj, detectedVersion) ==
    IF detectedVersion = NumberValue(ToString(DUMMY_ALPHA_VERSION))
    THEN upgradeAlpha(historyObj)
    ELSE upgradeBeta(historyObj)

UpgradeInit ==
    /\ loadedGalaxies = <<>>
    /\ fatal = FALSE
    /\ rootExists = TRUE
    /\ dirs = {}
    /\ files = <<>>
    /\ pending = {}
    /\ clock = 0
    /\ nCreated = 0
    /\ created = <<>>
    /\ \E raw \in UpgradeInputs : lastCall = [op |-> "input", raw |-> raw]

\* upgradeHistoryFile(json) up to the first test of the loop: JSON.parse is
\* not inside a try, so what it throws leaves the function.
upgradeHistoryFile ==
    /\ lastCall.op = "input"
    /\ LET json == lastCall.raw
           historyObj == JsonParse(json)
       IN  lastCall' =
             IF historyObj = Thrown
             THEN [op |-> "upgradeHistoryFile", raw |-> json, pc |-> "thrown",
                   historyObj |-> UndefinedValue, detectedVersion |-> UndefinedValue,
                   applied |-> {}, oddPasses |-> FALSE,
                   error |-> [kind |-> "SyntaxError"], result |-> UndefinedValue]
             ELSE [op |-> "upgradeHistoryFile", raw |-> json, pc |-> "while",
                   historyObj |-> historyObj, detectedVersion |-> detectVersion(historyObj),
                   applied |-> {}, oddPasses |-> FALSE, error |-> NoError,
                   result |-> UndefinedValue]
    /\ UNCHANGED <<loadedGalaxies, fatal, rootExists, dirs, files, pending, clock,
                   nCreated, created>>

\* The test of the while loop and, if it holds, one pass through its body;
\* oddPasses tells whether the body has been passed an odd number of times.
\* The function has no return statement: it yields undefined.
WhileIteration ==
    /\ lastCall.op = "upgradeHistoryFile"
    /\ lastCall.pc = "while"
    /\ LET detectedVersion == lastCall.detectedVersion
           upgraded == upgradeStep(lastCall.historyObj, detectedVersion)
       IN  lastCall' =
             IF detectedVersion = NumberValue(ToString(LATEST_HISTORY_VESRION))
             THEN [lastCall EXCEPT !.pc = "returned", !.result = UndefinedValue]
             ELSE IF isUnknownVersion(detectedVersion)
             THEN [lastCall EXCEPT !.pc = "thrown",
                                   !.error = [kind |-> "UnrecognizedVersion",
                                              tag |-> detectedVersion]]
             ELSE [lastCall EXCEPT !.historyObj = upgraded,
                                   !.detectedVersion = detectVersion(upgraded),
                                   !.applied = @ \cup {detectedVersion},
                                   !.oddPasses = ~@]
    /\ UNCHANGED <<loadedGalaxies, fatal, rootExists, dirs, files, pending, clock,
                   nCreated, created>>

UpgradeNext ==
    \/ upgradeHistoryFile
    \/ WhileIteration

UpgradeSpec == UpgradeInit /\ [][UpgradeNext]_vars

\* The call runs on: JavaScript runs the function to its end without
\* interruption.
UpgradeFairSpec == UpgradeSpec /\ WF_vars(upgradeHistoryFile) /\ WF_vars(WhileIteration)

\* The call of upgradeHistoryFile is under way or over.
Upgrading == lastCall.op = "upgradeHistoryFile"

\* The document the argument of the call describes, if it describes a value.
ParsedInput == JsonParse(lastCall.raw)

\* The order of the versions: alpha, beta, then the numbers.
VersionRank(v) ==
    CASE v = AlphaTag -> 0
      [] v = BetaTag -> 1
      [] v = NumberValue("0.5") -> 2
      [] v = LatestVersion -> 3
      [] v = NumberValue("2") -> 4
      [] OTHER -> -1

\* C21: every call of upgradeHistoryFile comes to an end: it returns with
\* the latest version detected, or it throws.
UpgradeTerminates ==
    <>(/\ Upgrading
       /\ \/ lastCall.pc = "returned" /\ lastCall.detectedVersion = LatestVersion
          \/ lastCall.pc = "thrown")

\* The loop has passed through upgradeBeta for EMPTY_BETA_HISTORY and is back
\* at its test with the beta tag detected again.
UpgradeLoopsOnBeta ==
    /\ Upgrading
    /\ lastCall.raw = JsonText(Put(EmptyObject, "snapshots", ArrayValue(<<EmptyObject>>)))
    /\ lastCall.pc = "while"
    /\ lastCall.applied = {BetaTag}
    /\ lastCall.detectedVersion = BetaTag

\* C22: the call of upgradeHistoryFile with the JSON text of
\* createSimpleBetaHistory() returns a History of version 1 whose journal is
\* one record with a system part and a sector part.
BetaUpgradeYieldsBundledHistory ==
    (Upgrading /\ lastCall.raw = JsonText(SimpleBetaHistory))
      ~> (/\ Upgrading
          /\ lastCall.pc = "returned"
          /\ Prop(lastCall.result, "VERSION") = LatestVersion
          /\ Prop(Prop(lastCall.result, "snapshots"), "length") = NumberValue("1")
          /\ Truthy(Prop(First(Prop(lastCall.result, "snapshots")), "system"))
          /\ Truthy(Prop(First(Prop(lastCall.result, "snapshots")), "sector")))

\* upgradeBeta has been applied to the document of createSimpleBetaHistory()
\* and the document still holds its two flat entries and no version.
BetaDocumentIsNotRewritten ==
    /\ Upgrading
    /\ lastCall.raw = JsonText(SimpleBetaHistory)
    /\ BetaTag \in lastCall.applied
    /\ lastCall.historyObj = SimpleBetaHistory

\* The version detected for the argument is neither alpha, beta nor the
\* latest.
UnknownInput ==
    /\ Upgrading
    /\ ParsedInput # Thrown
    /\ detectVersion(ParsedInput) \notin {AlphaTag, BetaTag, LatestVersion}

\* C23: a call of upgradeHistoryFile with the JSON text of a value whose
\* detected version is neither alpha, beta nor the latest applies no rewrite
\* to the document, and it ends by throwing the error that names the
\* detected version.
UnknownVersionIsRejected ==
    /\ [](UnknownInput =>
            /\ lastCall.applied = {}
            /\ lastCall.historyObj = ParsedInput
            /\ lastCall.pc \in {"while", "thrown"})
    /\ UnknownInput ~>
         (/\ Upgrading
          /\ lastCall.pc = "thrown"
          /\ lastCall.error = [kind |-> "UnrecognizedVersion",
                               tag |-> detectVersion(ParsedInput)])

\* The call with the text of {VERSION: 0.5} has thrown, naming 0.5.
UnknownVersionIsRejectedWitness ==
    /\ Upgrading
    /\ lastCall.raw = JsonText(Put(EmptyObject, "VERSION", NumberValue("0.5")))
    /\ lastCall.pc = "thrown"
    /\ lastCall.error = [kind |-> "UnrecognizedVersion", tag |-> NumberValue("0.5")]
    /\ lastCall.historyObj = Put(EmptyObject, "VERSION", NumberValue("0.5"))

\* C30: after the rewrite for a tag has been applied, the version detected
\* for the document is another one, later in the order of the versions.
RewriteAdvancesVersion ==
    Upgrading =>
      \A tag \in lastCall.applied :
         (lastCall.pc = "while") =>
            VersionRank(lastCall.detectedVersion) > VersionRank(tag)

\* The rewrite for the beta tag has been applied to a document with a null
\* VERSION and a flat first entry, and the beta tag is detected again.
RewriteLeavesTagUnchanged ==
    /\ Upgrading
    /\ Prop(lastCall.historyObj, "VERSION") = NullValue
    /\ lastCall.applied = {BetaTag}
    /\ VersionRank(lastCall.detectedVersion) = VersionRank(BetaTag)

-----------------------------------------------------------------------------
(* applySectorsUpdate on a galaxy of two sectors *)

MaxSectorRecords == 3

LIVE_SECTOR_1 == [id |-> 1, name |-> "other sector", owner |-> Null, division |-> DivNull,
                  adjacent |-> "adj", centroid |-> "cen", points |-> "pts"]

SectorGalaxy == [stellar_systems |-> <<>>, sectors |-> <<LIVE_SECTOR_0, LIVE_SECTOR_1>>]

\* A sector update whose name and division differ from what is stored,
\* whoever the owner is.
RenamedSectorCandidate(id, owner) ==
    [id |-> id, name |-> "renamed sector", owner |-> owner, division |-> DivArk,
     adjacent |-> "adj2", centroid |-> "cen2", points |-> "pts2"]

\* The `sectors` argument: null or undefined, or a list of sector updates,
\* the last one with a sector the History does not know.
SectorLists ==
    { NullSectors,
      [isNull |-> FALSE, list |-> <<>>],
      [isNull |-> FALSE, list |-> <<SectorCandidate(0, "ark"), SectorCandidate(1, "ark")>>],
      [isNull |-> FALSE, list |-> <<SectorCandidate(1, Null), SectorCandidate(0, "ark")>>],
      [isNull |-> FALSE, list |-> <<SectorCandidate(0, Null), SectorCandidate(1, "ark")>>],
      [isNull |-> FALSE, list |-> <<RenamedSectorCandidate(0, Null),
                                    RenamedSectorCandidate(1, "ark")>>],
      [isNull |-> FALSE, list |-> <<SectorCandidate(2, "ark")>>] }

\* Instance 20 has a document, instance 10 has none.
SectorInit ==
    /\ loadedGalaxies = <<>>
    /\ fatal = FALSE
    /\ rootExists = TRUE
    /\ dirs = {20}
    /\ files = [i \in {20} |-> FreshDocument(i, SectorGalaxy)]
    /\ pending = {}
    /\ clock = 0
    /\ nCreated = 0
    /\ lastCall = [op |-> "constructor"]
    /\ created = <<>>

SectorNext ==
    \E sectors \in SectorLists, i \in Instances :
        applySectorsUpdateWithin(sectors, i, MaxSectorRecords)

SectorSpec == SectorInit /\ [][SectorNext]_vars

\* The last step was an applySectorsUpdate call with a list of updates for
\* sectors the History knows, each sector named once, and the call returned.
SectorsRan ==
    /\ lastCall.op = "applySectorsUpdate"
    /\ lastCall.outcome = "return"
    /\ ~lastCall.sectors.isNull
    /\ \A n \in 1..Len(lastCall.sectors.list) :
          /\ Known(lastCall.before.current.sectors, lastCall.sectors.list[n].id)
          /\ \A m \in 1..Len(lastCall.sectors.list) :
                lastCall.sectors.list[m].id = lastCall.sectors.list[n].id => m = n

\* The sector with that id in a list that holds it once.
SectorOf(list, id) == list[CHOOSE n \in 1..Len(list) : list[n].id = id]

\* C24: applySectorsUpdate with null (or no) sectors changes nothing.  With a
\* list of updates for known sectors, each named once, under a flag that is
\* not set and with a History that can be loaded and saved: the updates
\* whose owner differs from that of the stored sector each append one
\* forward record (the update) and one undo record (the stored sector as it
\* was) in the order of the list, and the stored sector takes the update's
\* owner and division; an update whose owner is the stored one appends
\* nothing and leaves the stored sector as it is, whatever else differs.
SectorUpdateComparesOwnerOnly ==
    /\ (lastCall.op = "applySectorsUpdate" /\ lastCall.outcome = "return"
          /\ lastCall.sectors.isNull) =>
          /\ cachedOrNone(lastCall.instance) = lastCall.before
          /\ lastCall.save = "none"
    /\ SectorsRan =>
          LET list == lastCall.sectors.list
              before == lastCall.before
              after == loadedGalaxies[lastCall.instance]
              old == Len(before.snapshots)
              differs == {n \in 1..Len(list) :
                            SectorOf(before.current.sectors, list[n].id).owner
                              # list[n].owner}
              place(n) == old + Cardinality({m \in differs : m <= n})
          IN  /\ Len(after.snapshots) = old + Cardinality(differs)
              /\ Len(after.undo) = Len(before.undo) + Cardinality(differs)
              /\ SubSeq(after.snapshots, 1, old) = before.snapshots
              /\ SubSeq(after.undo, 1, Len(before.undo)) = before.undo
              /\ \A n \in 1..Len(list) :
                    LET stored == SectorOf(before.current.sectors, list[n].id)
                        now == SectorOf(after.current.sectors, list[n].id)
                    IN  IF n \in differs
                        THEN /\ after.snapshots[place(n)].id = list[n].id
                             /\ after.snapshots[place(n)].owner = list[n].owner
                             /\ after.snapshots[place(n)].type = "sector"
                             /\ after.undo[place(n)].id = list[n].id
                             /\ after.undo[place(n)].owner = stored.owner
                             /\ after.undo[place(n)].division = stored.division
                             /\ now.owner = list[n].owner
                             /\ now.division = list[n].division
                             /\ now.name = stored.name
                        ELSE now = stored
              /\ \A k \in 1..Len(before.current.sectors) :
                    (\A n \in 1..Len(list) : list[n].id # before.current.sectors[k].id)
                       => after.current.sectors[k] = before.current.sectors[k]
              /\ after.base = before.base

\* A call with two updates that both differ from the stored sectors in
\* name and division, the first with the stored owner and the second with a
\* new one, has appended one record and has left the first sector as it was.
SectorUpdateComparesOwnerOnlyWitness ==
    /\ SectorsRan
    /\ lastCall.sectors.list = <<RenamedSectorCandidate(0, Null),
                                 RenamedSectorCandidate(1, "ark")>>
    /\ Len(loadedGalaxies[lastCall.instance].snapshots)
         = Len(lastCall.before.snapshots) + 1
    /\ lastCall.before.current.sectors[1].owner = Null
    /\ loadedGalaxies[lastCall.instance].current.sectors[1]
         = lastCall.before.current.sectors[1]
    /\ loadedGalaxies[lastCall.instance].current.sectors[2].owner = "ark"

-----------------------------------------------------------------------------
(* A write that fails inside applySystemUpdate *)

\* C25: an applySystemUpdate call whose write of the document failed has
\* returned to its caller without an error.
WriteFailureIsNotRethrown ==
    (lastCall.op = "applySystemUpdate" /\ lastCall.save = "failed") =>
       /\ lastCall.outcome = "return"
       /\ lastCall.error = NoError

\* An applySystemUpdate call for an instance whose directory does not exist
\* has appended its records in memory and has ended with the error of the
\* write; the document is not on disk.
WriteFailureLeavesTheCall ==
    /\ lastCall.op = "applySystemUpdate"
    /\ lastCall.save = "failed"
    /\ lastCall.outcome = "IOError"
    /\ lastCall.instance \notin dirs
    /\ Len(loadedGalaxies[lastCall.instance].snapshots)
         = Len(lastCall.before.snapshots) + 1

-----------------------------------------------------------------------------
(* A History written by one session and read by the next *)

\* One session has a History of instance 20 on disk, as processNewInstance
\* wrote it, and nothing in its cache yet.
RoundTripInit ==
    /\ loadedGalaxies = <<>>
    /\ fatal = FALSE
    /\ rootExists = TRUE
    /\ dirs = {20}
    /\ files = [i \in {20} |-> FreshDocument(i, LiveGalaxy)]
    /\ pending = {}
    /\ clock = 0
    /\ nCreated = 0
    /\ lastCall = [op |-> "constructor"]
    /\ created = <<>>

\* The document of the instance is the one saveHistoryToDisk writes for the
\* History in the cache.
Persisted(instance) ==
    /\ instance \in DOMAIN loadedGalaxies
    /\ instance \in DOMAIN files
    /\ files[instance] = JsonHistory(loadedGalaxies[instance])

\* A faulty variant of line 52: the arguments of Object.assign are swapped,
\* the fields of the new History overwrite those of the document.
historyOfDocumentSwapped(document) == ObjectAssign(document, EmptyHistory)

\* Line 52: Object.assign(new History, JSON.parse(...)).
historyOfDocument(document) == ObjectAssign(EmptyHistory, document)

\* The session ends with the History persisted; a new HistoryManager is
\* constructed on the same directory and getHistory(instance) is called: the
\* cache is empty, the document is read.
ReloadInFreshStore(instance) ==
    /\ ~fatal
    /\ pending = {}
    /\ Persisted(instance)
    /\ LET history == historyOfDocument(files[instance])
       IN  /\ loadedGalaxies' = [i \in {instance} |-> history]
           /\ lastCall' = [op |-> "reload", instance |-> instance,
                           persisted |-> loadedGalaxies[instance],
                           result |-> history, missed |-> {}]
    /\ UNCHANGED <<fatal, rootExists, dirs, files, pending, clock, nCreated, created>>

RoundTripNext ==
    \/ \E sys \in Candidates : applySystemUpdate(sys, 20)
    \/ saveHistoryToDisk(20)
    \/ ReloadInFreshStore(20)

RoundTripSpec == RoundTripInit /\ [][RoundTripNext]_vars

\* Two objects have the same fields: a property reads the same in both,
\* where a property that is not there reads as undefined.
SameObject(a, b) ==
    \A k \in DOMAIN a \cup DOMAIN b :
       IF k \in DOMAIN a \cap DOMAIN b THEN a[k] = b[k]
       ELSE /\ k \in StringProps
            /\ (IF k \in DOMAIN a THEN a[k] ELSE b[k]) = Undefined

SameList(x, y) ==
    /\ Len(x) = Len(y)
    /\ \A n \in 1..Len(x) : SameObject(x[n], y[n])

SameGalaxy(g, h) ==
    /\ DOMAIN g = DOMAIN h
    /\ \A k \in DOMAIN g : SameList(g[k], h[k])

SameEntry(e, f) ==
    IF "system" \in DOMAIN e \/ "system" \in DOMAIN f
    THEN /\ DOMAIN e = DOMAIN f
         /\ SameObject(e.system, f.system)
         /\ SameObject(e.sector, f.sector)
    ELSE SameObject(e, f)

SameEntries(x, y) ==
    /\ Len(x) = Len(y)
    /\ \A n \in 1..Len(x) : SameEntry(x[n], y[n])

Structured == {"base", "current", "snapshots", "undo"}

SameHistory(a, b) ==
    /\ Structured \subseteq DOMAIN a \cap DOMAIN b
    /\ SameObject([k \in DOMAIN a \ Structured |-> a[k]],
                  [k \in DOMAIN b \ Structured |-> b[k]])
    /\ SameGalaxy(a.base, b.base)
    /\ SameGalaxy(a.current, b.current)
    /\ SameEntries(a.snapshots, b.snapshots)
    /\ SameEntries(a.undo, b.undo)

-----------------------------------------------------------------------------
(* The undo record against the forward record *)

\* The stored element with that id.
StoredIn(list, id) == list[getById(list, id)]

\* C27: the undo record an applySystemUpdate call appends is the inverse of
\* the forward record it appends at the same index: both name the system
\* and the sector of the update; the state right after the call holds the
\* forward record's owner, faction and status for the system and its owner
\* and division for the sector; and the undo record holds the values these
\* had right before the call, so that applying it restores them.
UndoInvertsSnapshot ==
    Appended =>
      LET sys == lastCall.sys
          before == lastCall.before.current
          after == loadedGalaxies[lastCall.instance].current
          systemBefore == StoredIn(before.stellar_systems, sys.id)
          sectorBefore == StoredIn(before.sectors, sys.sector_id)
          systemAfter == StoredIn(after.stellar_systems, sys.id)
          sectorAfter == StoredIn(after.sectors, sys.sector_id)
      IN  /\ Len(loadedGalaxies[lastCall.instance].undo)
               = Len(loadedGalaxies[lastCall.instance].snapshots)
          /\ Len(lastCall.before.undo) = Len(lastCall.before.snapshots)
          /\ LastSnapshot.system.id = sys.id
          /\ LastUndo.system.id = sys.id
          /\ LastSnapshot.sector.id = sys.sector_id
          /\ LastUndo.sector.id = sys.sector_id
          /\ \A k \in {"owner", "faction", "status"} :
                /\ Get(systemAfter, k) = Get(LastSnapshot.system, k)
                /\ Get(LastUndo.system, k) = Get(systemBefore, k)
          /\ Get(sectorAfter, "owner") = Get(LastSnapshot.sector, "owner")
          /\ sectorAfter.division = LastSnapshot.sector.division
          /\ Get(LastUndo.sector, "owner") = Get(sectorBefore, "owner")
          /\ LastUndo.sector.division = sectorBefore.division

\* A call has changed the owner, the faction and the status of a system and
\* the owner and division of its sector, and the undo record holds the old
\* values of all five.
UndoInvertsSnapshotWitness ==
    /\ Appended
    /\ LastSnapshot.system.owner = "Granite"
    /\ LastSnapshot.system.status = "inhabited"
    /\ LastSnapshot.system.faction = "ark"
    /\ LastSnapshot.sector.owner = "ark"
    /\ LastSnapshot.sector.division = DivArk
    /\ LastUndo.system.owner = Null
    /\ LastUndo.system.status = "uninhabited"
    /\ LastUndo.system.faction = Null
    /\ LastUndo.sector.owner = Null
    /\ LastUndo.sector.division = DivNull

-----------------------------------------------------------------------------
(* Objects the History shares with its callers *)

\* After an applySystemUpdate call that has appended its records, two
\* objects of the caller are part of the History: the update `sys` is the
\* system of the forward record (line 173 stores the object itself), and
\* the division array of the live sector is the division of the stored
\* sector (line 162 stores the reference).  The clones of lines 135, 155 and
\* 173 are not shared.
SharesObjects(instance) ==
    /\ lastCall.op = "applySystemUpdate"
    /\ lastCall.instance = instance
    /\ lastCall.changed
    /\ lastCall.outcome \in {"return", "IOError"}

\* What the game can make of a division array by writing to it in place.
Divisions == {DivNull, DivArk, <<[faction |-> "ark", points |-> 2]>>}

\* The game writes to the live sector object the last call has read: it
\* gives it another owner (a property of the live object alone), or it
\* writes into its division array, which the stored sector refers to.
LiveSectorChanged(instance) ==
    /\ SharesObjects(instance)
    /\ LET history == loadedGalaxies[instance]
           ci == getById(history.current.sectors, lastCall.sys.sector_id)
       IN  \E kind \in {"owner", "division"} :
            \E division \in Divisions \ {history.current.sectors[ci].division} :
              /\ loadedGalaxies' =
                    IF kind = "owner" THEN loadedGalaxies
                    ELSE [loadedGalaxies EXCEPT
                            ![instance].current.sectors[ci].division = division]
              /\ lastCall' = [op |-> "liveSectorChanged", instance |-> instance,
                              kind |-> kind, before |-> history, missed |-> {}]
    /\ UNCHANGED <<fatal, rootExists, dirs, files, pending, clock, nCreated, created>>

\* The caller goes on using the object it has passed as `sys`: it writes
\* another owner into it.
CandidateChanged(instance) ==
    /\ SharesObjects(instance)
    /\ LET history == loadedGalaxies[instance]
           n == Len(history.snapshots)
       IN  \E owner \in {Null, "Granite", "Basalt"} \ {history.snapshots[n].system.owner} :
              /\ loadedGalaxies' =
                    [loadedGalaxies EXCEPT ![instance].snapshots[n].system.owner = owner]
              /\ lastCall' = [op |-> "candidateChanged", instance |-> instance,
                              before |-> history, missed |-> {}]
    /\ UNCHANGED <<fatal, rootExists, dirs, files, pending, clock, nCreated, created>>

AliasNext ==
    \/ \E sys \in Candidates : applySystemUpdate(sys, 20)
    \/ LiveSectorChanged(20)
    \/ CandidateChanged(20)
    \/ saveHistoryToDisk(20)

AliasSpec == RoundTripInit /\ [][AliasNext]_vars

\* The last step was made by the game or the caller, not by the manager.
OutsideStep == lastCall.op \in {"liveSectorChanged", "candidateChanged"}

\* C28: a step of the game or of the caller on its own objects (the update
\* it has passed, the live sector) leaves the current state of the History
\* as it was.
CurrentChangesOnlyByUpdates ==
    OutsideStep =>
       loadedGalaxies[lastCall.instance].current = lastCall.before.current

\* The game has written into the division array of its live sector, and
\* the division of the stored sector in current is no longer what the last
\* applySystemUpdate call left.
LiveSectorWriteShowsInCurrent ==
    /\ lastCall.op = "liveSectorChanged"
    /\ lastCall.kind = "division"
    /\ loadedGalaxies[lastCall.instance].current.sectors[1].division
         # lastCall.before.current.sectors[1].division
    /\ loadedGalaxies[lastCall.instance].snapshots = lastCall.before.snapshots

\* C29: a step of the game or of the caller on its own objects leaves the
\* records of the journal as they were.
JournalIsAppendOnly ==
    OutsideStep =>
       /\ loadedGalaxies[lastCall.instance].snapshots = lastCall.before.snapshots
       /\ loadedGalaxies[lastCall.instance].undo = lastCall.before.undo

\* The caller has written into the update it had passed, the forward record
\* in memory has changed with it, and a save has put the changed record on
\* disk in place of the one written before.
CallerWriteShowsInJournal ==
    /\ lastCall.op = "saveHistoryToDisk"
    /\ lastCall.outcome = "return"
    /\ Len(files[lastCall.instance].snapshots) = 1
    /\ Len(lastCall.filesBefore[lastCall.instance].snapshots) = 1
    /\ files[lastCall.instance].snapshots[1].system.owner
         # lastCall.filesBefore[lastCall.instance].snapshots[1].system.owner
    /\ files[lastCall.instance].undo = lastCall.filesBefore[lastCall.instance].undo

-----------------------------------------------------------------------------
(* The sector of an update *)

\* C31: after an applySystemUpdate call that has found a change and has
\* appended its records, the stored sector of the update's sector_id has
\* the owner and the division getSector returned during the call, the
\* sector of the forward record has the same two, and the sector of the
\* undo record has the owner and the division the stored sector had before
\* the call.
SectorCapturedFromLookup ==
    Appended =>
      LET sys == lastCall.sys
          live == lastCall.curSector
          sectorBefore == StoredIn(lastCall.before.current.sectors, sys.sector_id)
          sectorAfter == StoredIn(loadedGalaxies[lastCall.instance].current.sectors,
                                  sys.sector_id)
      IN  /\ ~IsUndefined(live)
          /\ Get(sectorAfter, "owner") = Get(live, "owner")
          /\ sectorAfter.division = live.division
          /\ Get(LastSnapshot.sector, "owner") = Get(live, "owner")
          /\ LastSnapshot.sector.division = live.division
          /\ Get(LastUndo.sector, "owner") = Get(sectorBefore, "owner")
          /\ LastUndo.sector.division = sectorBefore.division

\* A call on a sector nobody owned has stored the live sector's owner and
\* division, and the undo record has kept the old ones.
SectorCapturedFromLookupWitness ==
    /\ Appended
    /\ lastCall.curSector.owner = "ark"
    /\ lastCall.curSector.division = DivArk
    /\ loadedGalaxies[lastCall.instance].current.sectors[1].owner = "ark"
    /\ loadedGalaxies[lastCall.instance].current.sectors[1].division = DivArk
    /\ LastSnapshot.sector.division = DivArk
    /\ LastUndo.sector.owner = Null
    /\ LastUndo.sector.division = DivNull

-----------------------------------------------------------------------------
(* The timestamps of a History *)

\* The last step was an applySystemUpdate call that appended nothing: it
\* found no change, or it ended with an error before line 177.
AppendedNothing == Ran /\ ~Appended

\* C32: after an applySystemUpdate call that has appended its records,
\* currentTimestamp of the History is the time of the forward record; after
\* a call that has appended nothing it is what it was.
CurrentTimestampFollowsRecords ==
    /\ Appended =>
          Get(loadedGalaxies[lastCall.instance], "currentTimestamp")
            = Get(LastSnapshot.system, "time")
    /\ AppendedNothing =>
          Get(loadedGalaxies[lastCall.instance], "currentTimestamp")
            = Get(lastCall.before, "currentTimestamp")

\* A call has appended a record with a time later than the creation of the
\* History; that time is in the property currentTime, and currentTimestamp is
\* still the time of creation.
CurrentTimestampStaysBehind ==
    /\ Appended
    /\ Get(LastSnapshot.system, "time") = ISO(1)
    /\ Get(loadedGalaxies[lastCall.instance], "currentTime") = ISO(1)
    /\ Get(loadedGalaxies[lastCall.instance], "currentTimestamp") = ISO(0)
    /\ Get(lastCall.before, "currentTimestamp") = ISO(0)

\* C33: the undo record an applySystemUpdate call appends carries, as its
\* time, the value currentTimestamp of the History had before the call.
UndoTimeIsPreviousTimestamp ==
    Appended =>
       Get(LastUndo.system, "time") = Get(lastCall.before, "currentTimestamp")

\* The first record of a History has been appended, and the time of its undo
\* record is undefined although the History has a creation timestamp.
FirstUndoHasNoTime ==
    /\ Appended
    /\ Len(lastCall.before.snapshots) = 0
    /\ Get(lastCall.before, "currentTimestamp") = ISO(0)
    /\ Get(lastCall.before, "currentTime") = Undefined
    /\ Get(LastUndo.system, "time") = Undefined

-----------------------------------------------------------------------------
(* Replaying the journal *)

\* An entry of the journal applied to a galaxy: a bundle gives its system's
\* owner, faction and status to the system of that id and its sector's owner
\* and division to the sector of that id; a flat sector entry gives its
\* owner and division to the sector of its id.
ApplyEntry(galaxy, entry) ==
    LET bundled == "system" \in DOMAIN entry
        hasSector == bundled \/ Get(entry, "type") = "sector"
        sector == IF bundled THEN entry.sector ELSE entry
    IN  [stellar_systems |->
            [n \in 1..Len(galaxy.stellar_systems) |->
                LET stored == galaxy.stellar_systems[n]
                IN  IF bundled /\ stored.id = entry.system.id
                    THEN Put(Put(Put(stored, "owner", Get(entry.system, "owner")),
                                 "faction", Get(entry.system, "faction")),
                             "status", Get(entry.system, "status"))
                    ELSE stored],
         sectors |->
            [n \in 1..Len(galaxy.sectors) |->
                LET stored == galaxy.sectors[n]
                IN  IF hasSector /\ stored.id = sector.id
                    THEN Put(Put(stored, "owner", Get(sector, "owner")),
                             "division", sector.division)
                    ELSE stored]]

RECURSIVE Replay(_, _, _)
Replay(galaxy, entries, n) ==
    IF n = 0 THEN galaxy ELSE ApplyEntry(Replay(galaxy, entries, n - 1), entries[n])

\* Two galaxies agree in what the journal records.
AgreesWith(g, h) ==
    /\ Len(g.stellar_systems) = Len(h.stellar_systems)
    /\ Len(g.sectors) = Len(h.sectors)
    /\ \A n \in 1..Len(g.stellar_systems) :
          /\ g.stellar_systems[n].id = h.stellar_systems[n].id
          /\ \A k \in {"owner", "faction", "status"} :
                Get(g.stellar_systems[n], k) = Get(h.stellar_systems[n], k)
    /\ \A n \in 1..Len(g.sectors) :
          /\ g.sectors[n].id = h.sectors[n].id
          /\ Get(g.sectors[n], "owner") = Get(h.sectors[n], "owner")
          /\ g.sectors[n].division = h.sectors[n].division

\* C34: for every History in the cache, the entries of snapshots applied in
\* order to base give, for every system and sector, what current holds.
ReplayGivesCurrent ==
    \A i \in DOMAIN loadedGalaxies :
       LET history == loadedGalaxies[i]
       IN  AgreesWith(Replay(history.base, history.snapshots, Len(history.snapshots)),
                      history.current)

\* A call for which getSector returned nothing has ended with a TypeError:
\* the journal is as before, and the system has the update's owner in
\* current.
FailedCallShowsInCurrent ==
    /\ Ran
    /\ lastCall.outcome = "TypeError"
    /\ loadedGalaxies[lastCall.instance].snapshots = lastCall.before.snapshots
    /\ StoredIn(loadedGalaxies[lastCall.instance].current.stellar_systems,
                lastCall.sys.id).owner = lastCall.sys.owner
    /\ StoredIn(lastCall.before.current.stellar_systems, lastCall.sys.id).owner
         # lastCall.sys.owner

-----------------------------------------------------------------------------
(* A sector lookup that finds nothing *)

\* The last step was an applySystemUpdate call that found a change and for
\* which getSector returned nothing.
LookupFailed ==
    /\ Ran
    /\ lastCall.changed
    /\ IsUndefined(lastCall.curSector)

\* C37: an applySystemUpdate call that has found a change and for which
\* getSector returned nothing ends with an error and leaves the History as
\* it was: the stored system, the timestamps, snapshots and undo.
LookupFailureIsAtomic ==
    LookupFailed =>
       LET before == lastCall.before
           after == loadedGalaxies[lastCall.instance]
       IN  /\ lastCall.outcome = "TypeError"
           /\ after.current.stellar_systems = before.current.stellar_systems
           /\ Get(after, "currentTimestamp") = Get(before, "currentTimestamp")
           /\ Get(after, "currentTime") = Get(before, "currentTime")
           /\ after.snapshots = before.snapshots
           /\ after.undo = before.undo

\* The call has ended with the TypeError, nothing has been appended and
\* nothing written, and the stored system has the update's status and
\* faction and the History a new currentTime.
LookupFailureLeavesHalfAnUpdate ==
    /\ LookupFailed
    /\ lastCall.outcome = "TypeError"
    /\ lastCall.save = "none"
    /\ loadedGalaxies[lastCall.instance].undo = lastCall.before.undo
    /\ StoredIn(loadedGalaxies[lastCall.instance].current.stellar_systems,
                lastCall.sys.id).status = "inhabited"
    /\ StoredIn(lastCall.before.current.stellar_systems, lastCall.sys.id).status
         = "uninhabited"
    /\ Get(loadedGalaxies[lastCall.instance], "currentTime")
         # Get(lastCall.before, "currentTime")
    /\ loadedGalaxies[lastCall.instance].current.sectors
         = lastCall.before.current.sectors

-----------------------------------------------------------------------------
(* What applySystemUpdate leaves alone *)

Ids(list) == [n \in 1..Len(list) |-> list[n].id]

-----------------------------------------------------------------------------
(* An update between processNewInstance and the creation of the directory *)

\* processNewInstance(instance, ...) has returned and its fs.mkdir has not
\* completed: the directory of the instance is not there yet.
DirectoryUnderWay(instance) ==
    /\ instance \in DOMAIN created
    /\ instance \notin dirs
    /\ \E op \in pending : op.kind = "mkdir" /\ op.instance = instance

\* C36: an applySystemUpdate that finds a change while the directory of its
\* instance is still being created does not end with its records appended
\* in memory and its save failed.
UpdateBeforeDirectoryIsSaved ==
    (Appended /\ DirectoryUnderWay(lastCall.instance)) => lastCall.save # "failed"

\* The replay directory exists, the directory of the instance is under way,
\* and a changed system was applied: the History in memory has one record
\* more, the write failed and no document of the instance is on disk.
UpdateBeforeDirectoryIsLost ==
    /\ Appended
    /\ rootExists
    /\ DirectoryUnderWay(lastCall.instance)
    /\ lastCall.save = "failed"
    /\ Len(loadedGalaxies[lastCall.instance].snapshots)
         = Len(lastCall.before.snapshots) + 1
    /\ lastCall.instance \notin DOMAIN files

-----------------------------------------------------------------------------
(* The initial write and the saves of later updates *)

\* The document of the instance on disk is the text of its History in memory.
PersistedIsCurrent(instance) ==
    /\ instance \in DOMAIN files
    /\ instance \in DOMAIN loadedGalaxies
    /\ files[instance] = JsonHistory(loadedGalaxies[instance])

\* C35: the initial fs.writeFile of processNewInstance, when it completes
\* without error on a document that is the text of the History in memory,
\* leaves it so: it does not put an older document in the place of a newer
\* one.
InitialWriteKeepsNewerDocument ==
    [][(/\ lastCall'.op = "writeFileCallback"
        /\ ~lastCall'.err
        /\ PersistedIsCurrent(lastCall'.instance))
         => files'[lastCall'.instance]
               = JsonHistory(loadedGalaxies'[lastCall'.instance])]_vars

\* Every callback has run without error, the History in memory holds one
\* record and the document on disk holds none: the initial write has
\* completed after the save of the update.
InitialWriteReplacedNewerDocument ==
    /\ pending = {}
    /\ ~fatal
    /\ lastCall.op = "writeFileCallback"
    /\ ~lastCall.err
    /\ lastCall.instance \in DOMAIN loadedGalaxies
    /\ Len(loadedGalaxies[lastCall.instance].snapshots) = 1
    /\ Len(loadedGalaxies[lastCall.instance].undo) = 1
    /\ files[lastCall.instance].snapshots = <<>>
    /\ files[lastCall.instance].undo = <<>>

====
